---- MODULE Spec2Model ----
(***************************************************************************)
(* A model of the mispricing-detection core of the Kalshi scanner:         *)
(*   - parity_scanner.py   : single-market / bracket parity, the parallel  *)
(*                           scan over all events and its ranking          *)
(*   - source_detector.py  : detect_sources (verifiability tier)           *)
(*   - nowcast_fetcher.py  : NowcastFetcher and its 5 minute cache         *)
(*   - weather_scanner.py  : the NWS cache and the forecast-edge scan      *)
(*   - backup/generate_report.py : the z-score report and its main()       *)
(*                                                                         *)
(* Money is kept in integers.  Prices are cents.  Dollar amounts that the  *)
(* code holds in floats are held in units of 1e-5 dollar ("e5"), which is  *)
(* exact for every product of a cent amount with KALSHI_FEE_RATE = 0.007.  *)
(* Python's round(x, n) is modelled by RoundHalfEven on the exact value;   *)
(* at an exact decimal tie the double's binary error decides the direction *)
(* in the code, so no property below depends on the direction of a tie.    *)
(***************************************************************************)
EXTENDS Integers, Sequences, FiniteSets, TLC

VARIABLES
    call,               \* the pure function under test and its arguments
    ret,                \* what it returned ("unset" before the call)
    pc,                 \* scan_all_parity: "idle", "scanning", "sorted", "aborted"
    events,             \* the input snapshot: event index -> its markets
    fast_mode,          \* scan_all_parity(fast_mode=...)
    pending,            \* futures as_completed has not yielded yet
    fetched,            \* event index -> what its fetch returned
    all_opportunities,  \* scan_all_parity: all_opportunities
    stats,              \* scan_all_parity: stats
    now,                \* the wall clock (datetime.now()), in seconds
    cache_time,         \* NowcastFetcher._cache_time (NoTime = None)
    gdp_cache,          \* NowcastFetcher._gdp_cache
    cpi_cache,          \* NowcastFetcher._cpi_cache
    nws_cache,          \* weather_scanner._nws_cache: cache key -> entry
    last_query,         \* the last forecast query: when, and what it was served
    pipeline_pc,        \* where run_pipeline stands
    all_markets,        \* run_pipeline: the market dicts fetched for the pass
    candidates,         \* run_pipeline: positions in all_markets of the dicts
                        \* the candidates list refers to
    pipeline_results,   \* run_pipeline: the results list
    auto_reconnect,     \* KalshiWebSocketClient.auto_reconnect
    max_reconnect_delay,\* KalshiWebSocketClient.max_reconnect_delay
    ws,                 \* KalshiWebSocketClient.ws: "none", or the state of the
                        \* connection object: "open", "closed_ok", "closed_error"
    connected,          \* KalshiWebSocketClient.connected
    reconnect_delay,    \* KalshiWebSocketClient.reconnect_delay
    message_id,         \* KalshiWebSocketClient.message_id
    subscriptions,      \* KalshiWebSocketClient.subscriptions
    run_pc,             \* where run() stands: "idle", "start", "connecting",
                        \* "listening", "sleeping", "done"
    conn,               \* how many connections have been established
    waits,              \* the asyncio.sleep() calls of run() since the last
                        \* established connection
    sent,               \* the commands sent, each with its connection
    tasks,              \* the subscribe / unsubscribe coroutines
    orderbook_cache,    \* MessageHandlers.orderbook_cache[market]
    book_net,           \* per side and price: snapshot quantity plus the deltas received
    book_consistent,    \* no delta has taken book_net below zero
    book_seq,           \* how many orderbook messages have been handled
    trades,             \* trades.json: data["trades"]
    ledger_stats,       \* trades.json: data["stats"]
    ledger_ops,         \* how many ledger operations have run
    pager_pc,           \* a paginated fetch: "idle", "loop", "waiting", "done"
    pager_iter,         \* the loop variable of a for ... in range(n) fetch loop
    pager_cursor,       \* whether cursor is a non-empty string
    pager_pages         \* pages collected so far (counted up to MaxPages)

scanvars == <<pc, events, fast_mode, pending, fetched, all_opportunities, stats>>
cachevars == <<now, cache_time, gdp_cache, cpi_cache, nws_cache, last_query>>
pipelinevars == <<pipeline_pc, all_markets, candidates, pipeline_results>>
clientvars == <<auto_reconnect, max_reconnect_delay, ws, connected, reconnect_delay,
                message_id, subscriptions, run_pc, conn, waits, sent, tasks>>
bookvars == <<orderbook_cache, book_net, book_consistent, book_seq>>
ledgervars == <<trades, ledger_stats, ledger_ops>>
pagervars == <<pager_pc, pager_iter, pager_cursor, pager_pages>>
vars == <<call, ret, scanvars, cachevars, pipelinevars, clientvars, bookvars, ledgervars, pagervars>>

(***************************************************************************)
(* Bounds                                                                  *)
(***************************************************************************)
MaxCents == 100         \* asks range over 0..MaxCents (0 = no ask)
MaxLegs == 3            \* markets passed to check_event_bracket_parity
MaxEvents == 2          \* events in one scan pass
MaxHits == 2            \* table entries (regex or keyword) one text matches
MaxTime == 86700        \* the clock stops here (one day and a little)
MaxBatch == 2           \* markets in one forecast-edge scan or report
MaxDiff == 100          \* tenths of a degree between forecast and threshold
MaxNowcast == 40        \* largest nowcast, in tenths of a point
MaxLead == 8            \* days between today and the furthest target date
MaxConnections == 2     \* connections one client establishes
MaxRetries == 4         \* consecutive failed connection attempts
MaxMessageId == 2       \* commands are started while message_id <= MaxMessageId
MaxCoroutines == 2      \* concurrent subscribe / unsubscribe coroutines
MaxPrice == 2           \* orderbook prices range over 1..MaxPrice
MaxMessages == 4        \* orderbook messages handled
MaxStrikes == 4         \* tickers of one series in the ledger
MaxOps == 4             \* ledger operations in one behaviour
MaxPages == 3           \* pages of a fetch are counted up to MaxPages

(***************************************************************************)
(* Arithmetic helpers                                                      *)
(***************************************************************************)
Max(a, b) == IF a >= b THEN a ELSE b
Min(a, b) == IF a <= b THEN a ELSE b
Abs(a) == IF a >= 0 THEN a ELSE -a

\* Python round(): n/d to the nearest integer, ties to even (d > 0).
RoundHalfEven(n, d) ==
    LET q == n \div d
        r == n % d
    IN  IF 2 * r > d THEN q + 1
        ELSE IF 2 * r < d THEN q
        ELSE IF q % 2 = 0 THEN q ELSE q + 1

RECURSIVE SumSeq(_)
SumSeq(s) == IF s = <<>> THEN 0 ELSE Head(s) + SumSeq(Tail(s))

RECURSIVE MinSeq(_)
MinSeq(s) == IF Len(s) = 1 THEN s[1] ELSE Min(Head(s), MinSeq(Tail(s)))

(***************************************************************************)
(* parity_scanner.py                                                       *)
(***************************************************************************)
KALSHI_FEE_RATE == 7        \* 0.007 per dollar of winnings = 7 e5 per cent
PAYOUT == 100000            \* payout = 1.00 dollar, in e5

None == [kind |-> "NONE"]
Raise == [kind |-> "RAISE"]     \* the call raised (TypeError on a non-numeric ask)

\* A market as the API returns it.  yes_ask / no_ask = 0 stands for a missing
\* or null ask (market.get("yes_ask", 0) or 0); bad = TRUE stands for a
\* yes_ask that is not a number, on which `yes_ask <= 0` raises TypeError.
Market(t, ya, na, vol, bad) ==
    [ticker |-> t, yes_ask |-> ya, no_ask |-> na, volume_24h |-> vol, bad |-> bad]

\* calculate_risk_score(profit_pct, volume, num_legs, is_bracket) with
\* profit_pct = pnum / pden percent (pden > 0).
\* calculate_risk_score taking 20 off, not adding it, for a volume under 1000
calculate_risk_score_low_volume_safe(pnum, pden, volume, num_legs, is_bracket) ==
    LET volf == IF volume > 100000 THEN -15
                ELSE IF volume > 10000 THEN -5
                ELSE IF volume < 1000 THEN -20 ELSE 0
        edgef == IF pnum > 5 * pden THEN 25
                 ELSE IF pnum > 3 * pden THEN 15
                 ELSE IF pnum > 1 * pden THEN 5
                 ELSE IF 10 * pnum < 3 * pden THEN -5 ELSE 0
        legf == IF num_legs > 4 THEN 15 ELSE IF num_legs > 2 THEN 5 ELSE 0
        brf == IF is_bracket THEN 10 ELSE 0
    IN  Max(0, Min(100, 50 + volf + edgef + legf + brf))

calculate_risk_score(pnum, pden, volume, num_legs, is_bracket) ==
    LET base == 50
        volf == IF volume > 100000 THEN -15
                ELSE IF volume > 10000 THEN -5
                ELSE IF volume < 1000 THEN 20 ELSE 0
        edgef == IF pnum > 5 * pden THEN 25
                 ELSE IF pnum > 3 * pden THEN 15
                 ELSE IF pnum > 1 * pden THEN 5
                 ELSE IF 10 * pnum < 3 * pden THEN -5 ELSE 0
        legf == IF num_legs > 4 THEN 15 ELSE IF num_legs > 2 THEN 5 ELSE 0
        brf == IF is_bracket THEN 10 ELSE 0
    IN  Max(0, Min(100, base + volf + edgef + legf + brf))

fee_if_wins_nodiv(ask) == Max(0, 100 - ask) * KALSHI_FEE_RATE * 100

\* fee if the side bought at `ask` wins: max(0, 100 - ask) * KALSHI_FEE_RATE / 100
fee_if_wins(ask) == Max(0, 100 - ask) * KALSHI_FEE_RATE

\* lines 213-259 of check_single_market_parity, given the worst-case fee
single_parity_result(market, max_fee) ==
    LET total_cost_cents == market.yes_ask + market.no_ask
        total_cost_e5 == total_cost_cents * 1000
        net_profit == PAYOUT - total_cost_e5 - max_fee
    IN  IF net_profit <= 0 THEN None
        ELSE [kind |-> "OPP",
              type |-> "SINGLE_MARKET_PARITY",
              ticker |-> market.ticker,
              yes_ask |-> market.yes_ask,
              no_ask |-> market.no_ask,
              total_cost_cents |-> total_cost_cents,
              net_profit |-> RoundHalfEven(net_profit, 10),                 \* round(net_profit, 4)
              profit_pct |-> RoundHalfEven(10 * net_profit, total_cost_cents), \* round(profit_pct, 2)
              max_fee |-> RoundHalfEven(max_fee, 10),
              volume_24h |-> market.volume_24h,
              risk_score |-> calculate_risk_score(net_profit, 10 * total_cost_cents,
                                                  market.volume_24h, 2, FALSE),
              stale_warning |-> (net_profit > 30 * total_cost_cents)]

check_single_market_parity_minfee(market) ==
    IF market.bad THEN Raise
    ELSE IF market.yes_ask <= 0 \/ market.no_ask <= 0 THEN None
    ELSE single_parity_result(market,
            Min(fee_if_wins(market.yes_ask), fee_if_wins(market.no_ask)))

\* check_single_market_parity never setting the stale-data flag
check_single_market_parity_unflagged(market) ==
    IF market.bad THEN Raise
    ELSE IF market.yes_ask <= 0 \/ market.no_ask <= 0 THEN None
    ELSE LET opp == single_parity_result(market,
                        Max(fee_if_wins(market.yes_ask), fee_if_wins(market.no_ask)))
         IN  IF opp = None THEN None ELSE [opp EXCEPT !.stale_warning = FALSE]

check_single_market_parity(market) ==
    IF market.bad THEN Raise
    ELSE IF market.yes_ask <= 0 \/ market.no_ask <= 0 THEN None
    ELSE single_parity_result(market,
            Max(fee_if_wins(market.yes_ask), fee_if_wins(market.no_ask)))

\* the brackets list of check_event_bracket_parity: markets with an ask
RECURSIVE brackets_of(_)
brackets_of(markets) ==
    IF markets = <<>> THEN <<>>
    ELSE LET m == Head(markets)
         IN  IF m.yes_ask <= 0 THEN brackets_of(Tail(markets))
             ELSE <<[ticker |-> m.ticker, yes_ask |-> m.yes_ask, volume |-> m.volume_24h]>>
                    \o brackets_of(Tail(markets))

AsksOf(brackets) == [i \in 1..Len(brackets) |-> brackets[i].yes_ask]
VolumesOf(brackets) == [i \in 1..Len(brackets) |-> brackets[i].volume]

check_event_bracket_parity(markets) ==
    IF Len(markets) < 2 THEN None
    ELSE IF \E i \in 1..Len(markets) : markets[i].bad THEN Raise
    ELSE LET brackets == brackets_of(markets)
         IN  IF Len(brackets) < 2 THEN None
             ELSE LET total_yes_cents == SumSeq(AsksOf(brackets))
                      min_cost == MinSeq(AsksOf(brackets))
                      max_fee == Max(0, 100 - min_cost) * KALSHI_FEE_RATE
                      net_profit == PAYOUT - total_yes_cents * 1000 - max_fee
                      total_vol == SumSeq(VolumesOf(brackets))
                  IN  IF net_profit <= 0 THEN None
                      ELSE [kind |-> "OPP",
                            type |-> "BRACKET_PARITY",
                            ticker |-> 0,           \* the record has no "ticker" key
                            brackets |-> brackets,
                            num_brackets |-> Len(brackets),
                            total_yes_cents |-> total_yes_cents,
                            net_profit |-> RoundHalfEven(net_profit, 10),
                            profit_pct |-> RoundHalfEven(10 * net_profit, total_yes_cents),
                            max_fee |-> RoundHalfEven(max_fee, 10),
                            risk_score |-> calculate_risk_score(net_profit, 10 * total_yes_cents,
                                                total_vol, Len(brackets), TRUE),
                            stale_warning |-> (net_profit > 30 * total_yes_cents)]

\* fetch_markets_for_event_parallel: the markets of the event, or [] when
\* api_get fails (api_get returns None on any request error or timeout)
fetch_markets_for_event_parallel(event_markets, api_ok) ==
    IF api_ok THEN event_markets ELSE <<>>

\* total_volume of the fast_mode filter
RECURSIVE total_volume(_)
total_volume(markets) ==
    IF markets = <<>> THEN 0
    ELSE Head(markets).volume_24h + total_volume(Tail(markets))

\* `for m in markets: opp = check_single_market_parity(m)`: the opportunities
\* appended, up to the first market on which the call raises
RECURSIVE single_opps(_)
single_opps(markets) ==
    IF markets = <<>> THEN <<>>
    ELSE LET opp == check_single_market_parity(Head(markets))
         IN  IF opp.kind = "RAISE" THEN <<>>
             ELSE IF opp.kind = "OPP" THEN <<opp>> \o single_opps(Tail(markets))
             ELSE single_opps(Tail(markets))

any_raises(markets) ==
    \E i \in 1..Len(markets) : check_single_market_parity(markets[i]).kind = "RAISE"

\* the bracket opportunity appended for an event with at least two markets
bracket_opps(markets) ==
    IF Len(markets) >= 2 /\ check_event_bracket_parity(markets).kind = "OPP"
    THEN <<check_event_bracket_parity(markets)>>
    ELSE <<>>

\* list.sort(key=lambda x: -key(x)): a stable sort, descending in the key;
\* equal keys keep the order they were appended in.  keys[i] is the key of
\* element i; stable_order gives the positions in sorted order.
RECURSIVE insert_desc(_, _, _)
insert_desc(perm, i, keys) ==
    IF perm = <<>> THEN <<i>>
    ELSE IF keys[Head(perm)] >= keys[i]
         THEN <<Head(perm)>> \o insert_desc(Tail(perm), i, keys)
         ELSE <<i>> \o perm

RECURSIVE stable_order(_, _)
stable_order(keys, n) ==
    IF n = 0 THEN <<>> ELSE insert_desc(stable_order(keys, n - 1), n, keys)

sorted_desc(seq, keys) ==
    LET perm == stable_order(keys, Len(seq))
    IN  [i \in 1..Len(seq) |-> seq[perm[i]]]

\* all_opportunities.sort(key=lambda x: -x.get("profit_pct", 0))
sort_by_profit(opps) ==
    sorted_desc(opps, [i \in 1..Len(opps) |-> opps[i].profit_pct])

Stats0 ==
    [events_scanned |-> 0, markets_scanned |-> 0, single_parity_found |-> 0,
     bracket_parity_found |-> 0, events_skipped_low_volume |-> 0,
     total_opportunities |-> 0]

(***************************************************************************)
(* source_detector.py                                                      *)
(*                                                                         *)
(* A text is modelled by what the matching finds in it: whether some       *)
(* SPECULATION_PATTERNS entry matches, the set of OFFICIAL_SOURCE_PATTERNS *)
(* entries whose regex matches (by position in the table) and the set of   *)
(* KEYWORD_HINTS keys it contains (by position in the dict).  A research   *)
(* method string is named by the entry it comes from.                      *)
(***************************************************************************)
\* (regex_pattern, source_name, research_tier, research_method), in table order
OFFICIAL_SOURCE_PATTERNS ==
    <<
       [source |-> "BLS", tier |-> 1], [source |-> "BEA", tier |-> 1], [source |-> "NWS", tier |-> 1],
       [source |-> "FOMC", tier |-> 1], [source |-> "Census", tier |-> 1], [source |-> "Treasury", tier |-> 2],
       [source |-> "Congress", tier |-> 2], [source |-> "SEC", tier |-> 2], [source |-> "CBO", tier |-> 2],
       [source |-> "EIA", tier |-> 2], [source |-> "USDA", tier |-> 2], [source |-> "CME", tier |-> 2],
       [source |-> "Crypto", tier |-> 4], [source |-> "Exchange", tier |-> 4], [source |-> "WhiteHouse", tier |-> 2],
       [source |-> "WhiteHouse", tier |-> 3], [source |-> "USTR", tier |-> 3], [source |-> "State", tier |-> 3],
       [source |-> "DHS", tier |-> 3], [source |-> "Nomination", tier |-> 3], [source |-> "FedChair", tier |-> 3],
       [source |-> "SCOTUS", tier |-> 3], [source |-> "Cabinet", tier |-> 3], [source |-> "ForeignPolicy", tier |-> 3],
       [source |-> "Tariff", tier |-> 3], [source |-> "Sanctions", tier |-> 3], [source |-> "Treaty", tier |-> 3],
       [source |-> "Impeachment", tier |-> 3], [source |-> "CongressVote", tier |-> 3], [source |-> "Veto", tier |-> 3],
       [source |-> "LeaderChange", tier |-> 3], [source |-> "Recall", tier |-> 3], [source |-> "ForeignLeader", tier |-> 3],
       [source |-> "ForeignLeader", tier |-> 3], [source |-> "ForeignLeader", tier |-> 3], [source |-> "ForeignLeader", tier |-> 3],
       [source |-> "Primary", tier |-> 3], [source |-> "Election", tier |-> 3], [source |-> "ElectionResult", tier |-> 3] >>

\* keyword -> (source, tier, method), in dict order
KEYWORD_HINTS ==
    <<
       [source |-> "BEA", tier |-> 1], [source |-> "BEA", tier |-> 1], [source |-> "BLS", tier |-> 1],
       [source |-> "BLS", tier |-> 1], [source |-> "BLS", tier |-> 1], [source |-> "BLS", tier |-> 1],
       [source |-> "BLS", tier |-> 1], [source |-> "BLS", tier |-> 1], [source |-> "FOMC", tier |-> 1],
       [source |-> "FOMC", tier |-> 1], [source |-> "FOMC", tier |-> 1], [source |-> "FOMC", tier |-> 1],
       [source |-> "NWS", tier |-> 1], [source |-> "NWS", tier |-> 1], [source |-> "NWS", tier |-> 1],
       [source |-> "Congress", tier |-> 2], [source |-> "Treasury", tier |-> 2], [source |-> "USTR", tier |-> 3],
       [source |-> "Crypto", tier |-> 4], [source |-> "Crypto", tier |-> 4], [source |-> "Crypto", tier |-> 4],
       [source |-> "Crypto", tier |-> 4], [source |-> "Nomination", tier |-> 3], [source |-> "FedChair", tier |-> 3],
       [source |-> "Impeachment", tier |-> 3], [source |-> "ForeignPolicy", tier |-> 3], [source |-> "LeaderChange", tier |-> 3],
       [source |-> "Primary", tier |-> 3], [source |-> "Election", tier |-> 3], [source |-> "SCOTUS", tier |-> 3] >>

InSeq(x, s) == \E i \in 1..Len(s) : s[i] = x

\* the body of both matching loops on a matching entry k of `table`
match_step_lastwins(acc, table, k, how) ==
    IF InSeq(table[k].source, acc.found_sources) THEN acc
    ELSE [found_sources |-> Append(acc.found_sources, table[k].source),
          best_tier |-> table[k].tier,
          best_method |-> <<how, k>>,
          detection |-> how]

match_step(acc, table, k, how) ==
    IF InSeq(table[k].source, acc.found_sources) THEN acc
    ELSE [found_sources |-> Append(acc.found_sources, table[k].source),
          best_tier |-> IF table[k].tier < acc.best_tier THEN table[k].tier ELSE acc.best_tier,
          best_method |-> IF table[k].tier < acc.best_tier THEN <<how, k>> ELSE acc.best_method,
          detection |-> how]

\* `for ... in table: if <entry matches>: ...` from entry k on
RECURSIVE match_loop(_, _, _, _, _)
match_loop(acc, table, matched, k, how) ==
    IF k > Len(table) THEN acc
    ELSE match_loop(IF k \in matched THEN match_step(acc, table, k, how) ELSE acc,
                    table, matched, k + 1, how)

speculation_result(verifiable) ==
    [verifiable |-> verifiable,
     sources |-> <<>>,
     research_tier |-> 9,
     research_method |-> <<"speculation", 0>>,
     detection_method |-> "speculation"]

detect_sources_body(text, on_speculation) ==
    IF text.speculation THEN on_speculation
    ELSE LET acc0 == [found_sources |-> <<>>, best_tier |-> 9,
                      best_method |-> <<"", 0>>, detection |-> "none"]
             acc1 == match_loop(acc0, OFFICIAL_SOURCE_PATTERNS, text.regex, 1, "regex")
             acc2 == IF acc1.found_sources = <<>>
                     THEN match_loop(acc1, KEYWORD_HINTS, text.keywords, 1, "keyword")
                     ELSE acc1
         IN  [verifiable |-> Len(acc2.found_sources) > 0,
              sources |-> acc2.found_sources,
              research_tier |-> IF acc2.found_sources # <<>> THEN acc2.best_tier ELSE 9,
              research_method |-> IF acc2.found_sources # <<>> THEN acc2.best_method
                                  ELSE <<"none", 0>>,
              detection_method |-> acc2.detection]

detect_sources_unverifiable(text) == detect_sources_body(text, speculation_result(FALSE))

detect_sources(text) == detect_sources_body(text, speculation_result(TRUE))

(***************************************************************************)
(* nowcast_fetcher.py: NowcastFetcher and its cache                        *)
(*                                                                         *)
(* Percentages are in tenths of a point, z-scores in tenths, confidence in *)
(* hundredths.                                                             *)
(***************************************************************************)
SECONDS_PER_DAY == 86400
NOWCAST_TTL == 300          \* "Refresh cache if older than 5 minutes"

NoTime == -1                \* _cache_time = None
NoData == [kind |-> "none"]             \* a cache attribute still None
ErrorData == [kind |-> "error"]         \* {'error': ..., 'source': ...}: no value
Data(v, t) == [kind |-> "value", value |-> v, fetched_at |-> t]

\* timedelta.seconds: the seconds field of a normalised timedelta, which
\* leaves the days out (0 <= seconds < 86400)
timedelta_seconds(delta) == delta % SECONDS_PER_DAY

\* `self._cache_time and (now - self._cache_time).seconds < 300`
cache_is_fresh(t_now, t_cache) ==
    t_cache # NoTime /\ timedelta_seconds(t_now - t_cache) < NOWCAST_TTL

\* _get_gdp_nowcast / _get_cpi_nowcast on a cache attribute:
\* historical_std is 0.5 for GDP and 0.3 for CPI
nowcast_signal(cache, threshold, std_tenths, source) ==
    IF cache.kind # "value" THEN None
    ELSE [kind |-> "NOWCAST",
          nowcast_value |-> cache.value,
          threshold |-> threshold,
          direction |-> IF cache.value > threshold THEN "yes" ELSE "no",
          z_score |-> (10 * (cache.value - threshold)) \div std_tenths,
          confidence |-> Min(100, (50 * Abs(cache.value - threshold)) \div std_tenths),
          source |-> source,
          fetched_at |-> cache.fetched_at]

\* get_for_market after _refresh_cache: dispatch on the series ticker
get_for_market(series, threshold, gdp, cpi) ==
    IF series = "KXGDP" THEN nowcast_signal(gdp, threshold, 5, "Atlanta Fed GDPNow")
    ELSE IF series = "KXCPI" THEN nowcast_signal(cpi, threshold, 3, "Cleveland Fed")
    ELSE None

(***************************************************************************)
(* weather_scanner.py: _nws_cache                                          *)
(***************************************************************************)
CacheKeys == {"nyc", "nyc_quant"}       \* city_key and f"{city_key}_quant"
Absent == [kind |-> "absent"]           \* key not in _nws_cache
NoQuery == [kind |-> "none"]

(***************************************************************************)
(* The normal CDF                                                          *)
(*                                                                         *)
(* norm_cdf(x) = 0.5 * (1 + erf(x / sqrt(2))) is tabulated: entry z30+121  *)
(* is norm_cdf(z30 / 30) in millionths, for z30 in -120..120 (|z| <= 4).   *)
(* With temperatures, inches and percentage points in tenths, every z the  *)
(* model forms is a multiple of 1/30: the error_std values used are 3.0    *)
(* and 0.5 (weather) and 1.0 (GDP sigma).  The code forms z in doubles, so *)
(* at a few inputs (nowcast 2.3 with bias 0.3) its z misses a bucket       *)
(* boundary by one ulp where the exact value sits on it.                   *)
(***************************************************************************)
NORM_CDF_E6 ==
    <<
       32, 36, 42, 48, 55, 63, 72, 83, 94, 108,
       123, 140, 159, 181, 205, 233, 263, 298, 337, 380,
       429, 483, 544, 612, 687, 771, 864, 968, 1082, 1209,
       1350, 1505, 1677, 1866, 2074, 2303, 2555, 2832, 3135, 3467,
       3830, 4228, 4661, 5134, 5649, 6210, 6819, 7480, 8198, 8975,
       9815, 10724, 11705, 12763, 13903, 15130, 16449, 17864, 19383, 21009,
       22750, 24611, 26598, 28717, 30974, 33377, 35930, 38642, 41518, 44565,
       47790, 51199, 54799, 58596, 62597, 66807, 71233, 75881, 80757, 85865,
       91211, 96800, 102637, 108726, 115070, 121673, 128537, 135666, 143061, 150724,
       158655, 166855, 175324, 184060, 193062, 202328, 211855, 221640, 231678, 241964,
       252493, 263258, 274253, 285470, 296901, 308538, 320369, 332386, 344578, 356934,
       369441, 382089, 394863, 407751, 420740, 433816, 446965, 460172, 473424, 486704,
       500000, 513296, 526576, 539828, 553035, 566184, 579260, 592249, 605137, 617911,
       630559, 643066, 655422, 667614, 679631, 691462, 703099, 714530, 725747, 736742,
       747507, 758036, 768322, 778360, 788145, 797672, 806938, 815940, 824676, 833145,
       841345, 849276, 856939, 864334, 871463, 878327, 884930, 891274, 897363, 903200,
       908789, 914135, 919243, 924119, 928767, 933193, 937403, 941404, 945201, 948801,
       952210, 955435, 958482, 961358, 964070, 966623, 969026, 971283, 973402, 975389,
       977250, 978991, 980617, 982136, 983551, 984870, 986097, 987237, 988295, 989276,
       990185, 991025, 991802, 992520, 993181, 993790, 994351, 994866, 995339, 995772,
       996170, 996533, 996865, 997168, 997445, 997697, 997926, 998134, 998323, 998495,
       998650, 998791, 998918, 999032, 999136, 999229, 999313, 999388, 999456, 999517,
       999571, 999620, 999663, 999702, 999737, 999767, 999795, 999819, 999841, 999860,
       999877, 999892, 999906, 999917, 999928, 999937, 999945, 999952, 999958, 999964,
       999968 >>

\* the middle entry of the table is z = 0
\* (from |z| = 10 on, the double is exactly 0.0 or 1.0)
norm_cdf(z30) ==
    IF z30 >= 300 THEN 1000000
    ELSE IF z30 <= -300 THEN 0
    ELSE NORM_CDF_E6[z30 + (Len(NORM_CDF_E6) + 1) \div 2]

Some(v) == [kind |-> "VALUE", value |-> v]

(***************************************************************************)
(* weather_scanner.py: the forecast-edge scan                              *)
(*                                                                         *)
(* Forecast values and thresholds are in tenths of a unit; probabilities,  *)
(* prices and edges in tenths of a cent / percent.                         *)
(***************************************************************************)
\* error_std of estimate_probability, in tenths
error_std(metric) ==
    CASE metric = "high_temp" -> 30
      [] metric = "low_temp" -> 30
      [] metric = "temperature" -> 35
      [] metric = "snow" -> 20
      [] metric = "rain" -> 5
      [] metric = "wind" -> 50
      [] OTHER -> 30

\* estimate_probability(nws_value, threshold, direction, metric), in tenths
\* of a percent: round(max(1, min(99, prob)), 1)
\* estimate_probability computing "below" as it computes "above"
estimate_probability_ignoring_direction(nws_value, threshold, direction, metric) ==
    LET std == error_std(metric)
        diff == nws_value - threshold
        z30 == IF std > 0 THEN (30 * diff) \div std ELSE IF diff > 0 THEN 300 ELSE -300
    IN  RoundHalfEven(Max(10000, Min(990000, norm_cdf(z30))), 1000)

estimate_probability(nws_value, threshold, direction, metric) ==
    LET std == error_std(metric)
        diff == nws_value - threshold
        \* z = diff / std if std > 0 else (10 if diff > 0 else -10)
        z30 == IF std > 0 THEN (30 * diff) \div std ELSE IF diff > 0 THEN 300 ELSE -300
        prob == IF direction = "above" THEN norm_cdf(z30) ELSE 1000000 - norm_cdf(z30)
    IN  RoundHalfEven(Max(10000, Min(990000, prob)), 1000)

\* calculate_edge(nws_prob, market_price): round(nws_prob - market_price, 1)
weather_edge(nws_prob, market_price) == nws_prob - market_price

\* the body of the loop of scan_weather_markets (lines 935-1045) on one
\* parsed market p: None when the market is skipped
weather_opportunity(p) ==
    IF ~p.parsed THEN None                      \* no city / metric / threshold
    ELSE IF p.forecast = None THEN None         \* skipped["no_forecast"]
    ELSE
    LET nws_prob == estimate_probability(p.forecast.value, p.threshold, p.direction, p.metric)
        mid_price == IF p.yes_bid > 0 /\ p.yes_ask > 0 THEN (p.yes_bid + p.yes_ask) * 5
                     ELSE IF p.last_price > 0 THEN p.last_price * 10
                     ELSE 500                   \* "can't determine"
        yes_edge == weather_edge(nws_prob, mid_price)
        no_edge == weather_edge(1000 - nws_prob, 1000 - mid_price)
        pick_no == Abs(no_edge) > Abs(yes_edge) /\ no_edge # 0 /\ no_edge > 0
        entry_cost == IF pick_no
                      THEN (IF p.no_ask > 0 THEN p.no_ask ELSE 100 - p.last_price)
                      ELSE (IF p.yes_ask > 0 THEN p.yes_ask ELSE p.last_price)
    IN  [kind |-> "OPP",
         ticker |-> p.ticker,
         nws_value |-> p.forecast.value,
         nws_confidence |-> p.forecast.confidence,
         nws_prob |-> nws_prob,
         market_price |-> mid_price,
         spread |-> IF p.yes_ask > 0 /\ p.yes_bid > 0 THEN p.yes_ask - p.yes_bid ELSE 99,
         best_side |-> IF pick_no THEN "NO" ELSE "YES",
         edge |-> IF pick_no THEN no_edge ELSE yes_edge,
         entry_cost |-> entry_cost,
         profit_if_win |-> IF entry_cost # 0 THEN 100 - entry_cost ELSE 0]

RECURSIVE weather_opportunities(_)
weather_opportunities(parsed_markets) ==
    IF parsed_markets = <<>> THEN <<>>
    ELSE LET opp == weather_opportunity(Head(parsed_markets))
         IN  (IF opp = None THEN <<>> ELSE <<opp>>)
                \o weather_opportunities(Tail(parsed_markets))

\* scan_weather_markets(min_edge): the opportunities with |edge| >= min_edge,
\* largest |edge| first
scan_weather_markets(parsed_markets, min_edge) ==
    LET opportunities == weather_opportunities(parsed_markets)
        strong_opps == SelectSeq(opportunities, LAMBDA o : Abs(o.edge) >= 10 * min_edge)
    IN  [kind |-> "SCANNED",
         strong_opps |-> sorted_desc(strong_opps,
                            [i \in 1..Len(strong_opps) |-> Abs(strong_opps[i].edge)]),
         total_with_forecast |-> Len(opportunities)]

(***************************************************************************)
(* backup/generate_report.py: the z-score report                           *)
(*                                                                         *)
(* Nowcasts, thresholds, sigma and bias are in tenths of a point; prices   *)
(* and edges in cents; positions in hundredths.                            *)
(***************************************************************************)
GDP_SIGMA == 10             \* MARKET_PARAMS["GDP"]["sigma"] = 1.0
GDP_BIAS == 3               \* MARKET_PARAMS["GDP"]["bias"] = 0.3
GDP_TX_COST == 5            \* MARKET_PARAMS["GDP"]["tx_cost"] = 5
DEFAULT_GDPNOW == 31        \* main: gdpnow = 3.1

\* z = (adjusted_nowcast - threshold) / sigma: ZeroDivisionError when sigma
\* is 0, and a quotient of the opposite sign when sigma is negative
calculate_signal(nowcast, threshold, sigma, bias) ==
    IF sigma = 0 THEN Raise ELSE
    LET adjusted_nowcast == nowcast - bias
        z30 == IF sigma > 0 THEN (30 * (adjusted_nowcast - threshold)) \div sigma
               ELSE -((30 * (adjusted_nowcast - threshold)) \div (-sigma))
        abs_z == Abs(z30)
        fair_yes == norm_cdf(z30) \div 10000        \* int(p_yes * 100)
    IN  [z_score |-> z30,
         signal |-> IF abs_z < 15 THEN "NO_SIGNAL"
                    ELSE IF abs_z < 30 THEN "WEAK"
                    ELSE IF abs_z < 60 THEN "MODERATE"
                    ELSE "STRONG",
         p_yes |-> norm_cdf(z30),
         fair_yes |-> fair_yes,
         fair_no |-> 100 - fair_yes]

\* calculate_edge with the NO_SIGNAL rung of the ladder left out
calculate_edge_ignoring_signal(signal_data, market_price, side, tx_cost) ==
    LET gross_edge == IF side = "YES" THEN signal_data.fair_yes - market_price
                      ELSE signal_data.fair_no - (100 - market_price)
        net_edge == gross_edge - tx_cost
    IN  [gross_edge |-> gross_edge,
         net_edge |-> net_edge,
         position |-> IF net_edge <= 0 THEN 0
                      ELSE IF net_edge < 5 THEN 25
                      ELSE IF net_edge < 10 THEN 50
                      ELSE 100,
         recommendation |-> IF net_edge <= 0 THEN "SKIP (no edge)"
                            ELSE IF net_edge < 5 THEN "small position"
                            ELSE IF net_edge < 10 THEN "medium position"
                            ELSE "large position"]

calculate_edge(signal_data, market_price, side, tx_cost) ==
    LET gross_edge == IF side = "YES" THEN signal_data.fair_yes - market_price
                      ELSE signal_data.fair_no - (100 - market_price)
        net_edge == gross_edge - tx_cost
    IN  [gross_edge |-> gross_edge,
         net_edge |-> net_edge,
         position |-> IF signal_data.signal = "NO_SIGNAL" THEN 0
                      ELSE IF net_edge <= 0 THEN 0
                      ELSE IF net_edge < 5 THEN 25
                      ELSE IF net_edge < 10 THEN 50
                      ELSE 100,
         recommendation |-> IF signal_data.signal = "NO_SIGNAL" THEN "SKIP (noise)"
                            ELSE IF net_edge <= 0 THEN "SKIP (no edge)"
                            ELSE IF net_edge < 5 THEN "small position"
                            ELSE IF net_edge < 10 THEN "medium position"
                            ELSE "large position"]

\* one row of the GDP table (lines 281-315): the signal, the better side and
\* its edge, for a market with a threshold
report_row(m, gdpnow) ==
    LET signal_data == calculate_signal(gdpnow, m.threshold.value, GDP_SIGMA, GDP_BIAS)
        yes_edge == calculate_edge(signal_data, m.price, "YES", GDP_TX_COST)
        no_edge == calculate_edge(signal_data, m.price, "NO", GDP_TX_COST)
        best_side == IF yes_edge.net_edge > no_edge.net_edge THEN "YES" ELSE "NO"
        best_edge == IF yes_edge.net_edge > no_edge.net_edge THEN yes_edge ELSE no_edge
    IN  [ticker |-> m.ticker,
         side |-> best_side,
         price |-> IF best_side = "YES" THEN m.price ELSE 100 - m.price,
         edge |-> best_edge.gross_edge,
         net_edge |-> best_edge.net_edge,
         z |-> signal_data.z_score,
         signal |-> signal_data.signal,
         fair_yes |-> signal_data.fair_yes,
         position |-> best_edge.position,
         rec |-> best_edge.recommendation,
         nowcast |-> gdpnow]

\* generate_report(markets, gdpnow) for the KXGDP markets: the rows printed,
\* by threshold descending, and the recommendations (position > 0)
generate_report(markets, gdpnow) ==
    IF markets = <<>> \/ gdpnow = 0 THEN [kind |-> "REPORT", rows |-> <<>>, recommendations |-> <<>>]
    ELSE
    LET sorted == sorted_desc(markets,
                    [i \in 1..Len(markets) |->
                        IF markets[i].threshold = None THEN 0 ELSE markets[i].threshold.value])
        with_threshold == SelectSeq(sorted, LAMBDA m : m.threshold # None)
        rows == [i \in 1..Len(with_threshold) |-> report_row(with_threshold[i], gdpnow)]
    IN  [kind |-> "REPORT",
         rows |-> rows,
         recommendations |-> SelectSeq(rows, LAMBDA r : r.position > 0)]

\* main(): fetch_gdpnow() gave `provider` (None on any error or no match);
\* `if gdpnow:` fails on None and on 0.0, and 3.1 is used instead
main(markets, provider) ==
    LET gdpnow == IF provider # None /\ provider.value # 0 THEN provider.value
                  ELSE DEFAULT_GDPNOW
    IN  generate_report(markets, gdpnow)

(***************************************************************************)
(* unified_scanner.py: UnifiedScanner.scan and its tier gate                *)
(***************************************************************************)
\* sum(m.get("volume", 0) for m in markets)
RECURSIVE sum_volume(_)
sum_volume(markets) ==
    IF markets = <<>> THEN 0 ELSE Head(markets).volume + sum_volume(Tail(markets))

\* analyze_event: None when the request fails or the event has no market;
\* the tier is that of the first market's rules and title
analyze_event(event) ==
    IF ~event.api_ok \/ event.markets = <<>> THEN None
    ELSE LET result == detect_sources(event.markets[1].text)
         IN  [kind |-> "INFO",
              event_ticker |-> event.ticker,
              tier |-> result.research_tier,
              sources |-> result.sources,
              volume |-> sum_volume(event.markets),
              days_left |-> event.days_left,
              market_count |-> Len(event.markets)]

\* the filter of scan with the tier comparison turned round
passes_filters_tier_reversed(info, min_volume, max_days, min_tier) ==
    /\ info.volume >= min_volume
    /\ info.days_left <= max_days
    /\ info.tier >= min_tier

\* scan, lines 171-173
passes_filters(info, min_volume, max_days, min_tier) ==
    /\ info.volume >= min_volume
    /\ info.days_left <= max_days
    /\ info.tier <= min_tier

RECURSIVE scan_results(_, _, _, _)
scan_results(filtered, min_volume, max_days, min_tier) ==
    IF filtered = <<>> THEN <<>>
    ELSE LET info == analyze_event(Head(filtered))
         IN  (IF info # None /\ passes_filters(info, min_volume, max_days, min_tier)
              THEN <<info>> ELSE <<>>)
                \o scan_results(Tail(filtered), min_volume, max_days, min_tier)

\* UnifiedScanner(min_volume, max_days, min_tier).scan() over the events of
\* the target categories: results.sort(key=lambda x: (x["tier"], -x["volume"]))
scan(filtered, min_volume, max_days, min_tier) ==
    LET results == scan_results(filtered, min_volume, max_days, min_tier)
    IN  [min_tier |-> min_tier,
         filtered_events |-> Len(filtered),
         matched_markets |-> Len(results),
         results |-> sorted_desc(results,
                        [i \in 1..Len(results) |->
                            results[i].volume - 1000000 * results[i].tier])]

\* the NO edge taken against the YES price instead of its complement
yes_no_edges_same_price(nws_prob, mid_price) ==
    [yes_edge |-> weather_edge(nws_prob, mid_price),
     no_edge |-> weather_edge(1000 - nws_prob, mid_price)]

\* scan_weather_markets, lines 1001-1003: the YES edge, and the NO edge on
\* the complementary probability and price
yes_no_edges(nws_prob, mid_price) ==
    [yes_edge |-> weather_edge(nws_prob, mid_price),
     no_edge |-> weather_edge(1000 - nws_prob, 1000 - mid_price)]

(***************************************************************************)
(* weather_scanner.py: the NWS forecast for a target date                   *)
(*                                                                         *)
(* Dates are day numbers, today being 0.  quant is None (request failed) or *)
(* the series stored under the property the metric asks for; periods is    *)
(* None or the list of forecast periods.  Temperatures are in tenths.  An  *)
(* entry's value is NoValue or Some(v).                                    *)
(***************************************************************************)
Forecast(v, confidence) == [kind |-> "FORECAST", value |-> v, confidence |-> confidence]
NoValue == [kind |-> "NULL"]                \* "value": null in the series
QuantEntry(date, value) == [date |-> date, value |-> value]
Period(date, isDaytime, temperature) ==
    [date |-> date, isDaytime |-> isDaytime, temperature |-> temperature]
Periods(list) == [kind |-> "PERIODS", list |-> list]

\* confidence of get_nws_temp_for_date, line 663
lead_time_confidence(days_ahead) ==
    IF days_ahead <= 2 THEN "HIGH" ELSE IF days_ahead <= 5 THEN "MEDIUM" ELSE "LOW"

\* round(val * 9/5 + 32, 1), val in tenths of a degree Celsius
celsius_to_fahrenheit(val) == RoundHalfEven(9 * val, 5) + 320

metric_takes(metric, isDaytime) ==
    \/ metric = "high_temp" /\ isDaytime
    \/ metric = "low_temp" /\ ~isDaytime
    \/ metric = "temperature"

\* the closest-period loop, lines 704-719: acc is <<best, best_diff>>
RECURSIVE closest_period(_, _, _, _)
closest_period(periods, target_date, metric, acc) ==
    IF periods = <<>> THEN acc
    ELSE LET period == Head(periods)
             diff == Abs(period.date - target_date)
         IN  closest_period(Tail(periods), target_date, metric,
                IF diff < acc[2] /\ metric_takes(metric, period.isDaytime)
                THEN <<period, diff>> ELSE acc)

get_nws_temp_for_date(quant, periods, target_date, today, metric) ==
    LET days_ahead == target_date - today
        confidence == lead_time_confidence(days_ahead)
        in_series == IF quant = None THEN <<>>
                     ELSE SelectSeq(quant.series,
                            LAMBDA e : e.date = target_date /\ e.value # NoValue)
        matching == IF periods = None THEN <<>>
                    ELSE SelectSeq(periods.list,
                            LAMBDA q : q.date = target_date /\ metric_takes(metric, q.isDaytime))
    IN  IF days_ahead > 7 \/ days_ahead < -1 THEN None
        ELSE IF in_series # <<>>
             THEN Forecast(celsius_to_fahrenheit(Head(in_series).value.value), confidence)
        ELSE IF periods = None \/ periods.list = <<>> THEN None
        ELSE IF matching # <<>> THEN Forecast(Head(matching).temperature, confidence)
        ELSE LET found == closest_period(periods.list, target_date, metric, <<None, 999>>)
             IN  IF found[1] # None /\ found[2] <= 1
                 THEN Forecast(found[1].temperature, "LOW")
                 ELSE None

\* total += val / 25.4 over the entries of the month with a value, in mm
RECURSIVE month_total(_, _)
month_total(series, year_month) ==
    IF series = <<>> THEN 0
    ELSE (IF Head(series).date = year_month /\ Head(series).value # NoValue
          THEN Head(series).value.value ELSE 0)
            + month_total(Tail(series), year_month)

\* get_nws_precip_for_month: entries carry the month in `date`; an entry
\* counts when its value is a non-zero number; the total is in tenths of an inch
get_nws_precip_for_month(quant, year_month, metric) ==
    IF quant = None \/ quant.series = <<>> THEN None
    ELSE IF \E i \in 1..Len(quant.series) :
                /\ quant.series[i].date = year_month
                /\ quant.series[i].value # NoValue
                /\ quant.series[i].value # Some(0)
         THEN Forecast(RoundHalfEven(100 * month_total(quant.series, year_month), 254), "LOW")
         ELSE None

(***************************************************************************)
(* kalshi_pipeline.py: quick_filter and run_pipeline                        *)
(*                                                                         *)
(* A market dict is a record; a key the dict does not have is Absent, a    *)
(* key it has is Some(value).  Lists of markets that share dict objects    *)
(* with all_markets (candidates, results) hold positions in all_markets.   *)
(***************************************************************************)
ApiMarket(series, threshold, text, last_price, volume_24h, rules_primary) ==
    [ticker |-> 0, series |-> series,
     threshold |-> threshold,           \* extract_threshold(title)
     text |-> text,                     \* what rules_primary and title match
     last_price |-> last_price, volume_24h |-> volume_24h,
     rules_primary |-> rules_primary, rules_secondary |-> Absent,
     _tier |-> Absent, _sources |-> Absent, _research_method |-> Absent,
     _nowcast |-> Absent]

\* min(last_price, 100 - last_price), the sort key of quick_filter
cost_of_extreme(m) == Min(m.last_price, 100 - m.last_price)

\* the tests of quick_filter on one market: extreme price, volume, tier
is_candidate(m, min_volume) ==
    /\ m.last_price >= 85 \/ m.last_price <= 15
    /\ m.volume_24h >= min_volume
    /\ detect_sources(m.text).research_tier <= 2

\* the market dict after quick_filter has run over it
filter_marked(m, min_volume) ==
    IF is_candidate(m, min_volume)
    THEN LET result == detect_sources(m.text)
         IN  [m EXCEPT !._tier = Some(result.research_tier),
                       !._sources = Some(result.sources),
                       !._research_method = Some(result.research_method)]
    ELSE m

\* quick_filter(markets, min_volume): the positions of the candidates, by
\* min(price, 100 - price) ascending (a stable sort)
quick_filter(markets, min_volume) ==
    LET positions == SelectSeq([i \in 1..Len(markets) |-> i],
                               LAMBDA i : is_candidate(markets[i], min_volume))
    IN  sorted_desc(positions,
            [k \in 1..Len(positions) |-> -cost_of_extreme(markets[positions[k]])])

\* candidates[:top_n]
first_n(seq, n) == SubSeq(seq, 1, Min(n, Len(seq)))

\* run_pipeline, lines 355-359: a market without rules_primary gets ""
with_rules_key(m) ==
    IF m.rules_primary = Absent \/ m.rules_primary = Some("")
    THEN [m EXCEPT !.rules_primary = Some("")]
    ELSE m

\* run_pipeline, lines 393-401: the detail request for the candidate
with_details(m, details) ==
    IF details = None THEN m
    ELSE [m EXCEPT !.rules_primary = Some(details.rules_primary),
                   !.rules_secondary = Some(details.rules_secondary)]

(***************************************************************************)
(* websocket/client.py: KalshiWebSocketClient                              *)
(***************************************************************************)
\* __init__: max_reconnect_delay: int = 60
DEFAULT_MAX_RECONNECT_DELAY == 60

\* run(): self.reconnect_delay = 2 * self.reconnect_delay, without the cap
next_reconnect_delay_uncapped(delay, cap) == delay * 2

\* run(): self.reconnect_delay = min(self.reconnect_delay * 2, self.max_reconnect_delay)
next_reconnect_delay(delay, cap) == Min(delay * 2, cap)

\* a coroutine of subscribe() or unsubscribe(): where it stands ("idle",
\* "sending" = suspended in await self.ws.send(...), "done", "failed"), the
\* command it built, the connection it is sending on, and what it returned
NoTask == [pc |-> "idle", cmd |-> "none", id |-> 0, channels |-> "none",
           sid |-> 0, conn |-> 0, result |-> 0]

\* subscribe(), up to the await: subscription_msg is built with the current
\* message_id
subscription_msg(id, channels, on) ==
    [pc |-> "sending", cmd |-> "subscribe", id |-> id, channels |-> channels,
     sid |-> 0, conn |-> on, result |-> 0]

\* unsubscribe(), up to the await
unsubscribe_msg(id, sid, on) ==
    [pc |-> "sending", cmd |-> "unsubscribe", id |-> id, channels |-> "none",
     sid |-> sid, conn |-> on, result |-> 0]

\* what goes on the wire for a task
Command(task) ==
    [conn |-> task.conn, id |-> task.id, cmd |-> task.cmd,
     channels |-> task.channels, sid |-> task.sid]

\* self.subscriptions[subscription_id] = {...}
track(subs, sid, channels) ==
    [k \in DOMAIN subs \cup {sid} |-> IF k = sid THEN [channels |-> channels] ELSE subs[k]]

\* if subscription_id in self.subscriptions: del self.subscriptions[subscription_id]
untrack(subs, sid) == [k \in DOMAIN subs \ {sid} |-> subs[k]]

(***************************************************************************)
(* websocket/handlers.py: MessageHandlers, the cached orderbook            *)
(***************************************************************************)
\* a level is [price, quantity]
Level(p, q) == <<p, q>>

\* handle_orderbook_snapshot: the cache entry for the market
handle_orderbook_snapshot(msg) ==
    [kind |-> "BOOK", yes_levels |-> msg.yes, no_levels |-> msg.no]

\* for i, (p, q) in enumerate(levels): if p == price: ... break
\* the position of the first level at this price, 0 when the loop ends
\* without a break
RECURSIVE first_level_at(_, _, _)
first_level_at(levels, price, i) ==
    IF i > Len(levels) THEN 0
    ELSE IF levels[i][1] = price THEN i
    ELSE first_level_at(levels, price, i + 1)

\* levels.pop(i)
pop(levels, i) ==
    [k \in 1..(Len(levels) - 1) |-> IF k < i THEN levels[k] ELSE levels[k + 1]]

\* levels.sort(key=lambda x: x[0], reverse=(side == "yes")): a stable sort
sort_levels(levels, side) ==
    sorted_desc(levels, [k \in 1..Len(levels) |->
                            IF side = "yes" THEN levels[k][1] ELSE -levels[k][1]])

\* the else branch of the loop without the sort: a new level is appended
update_levels_unsorted(levels, side, price, delta) ==
    LET i == first_level_at(levels, price, 1)
    IN  IF i > 0
        THEN LET new_qty == levels[i][2] + delta
             IN  IF new_qty <= 0 THEN pop(levels, i)
                 ELSE [levels EXCEPT ![i] = Level(price, new_qty)]
        ELSE IF delta > 0 THEN Append(levels, Level(price, delta))
        ELSE levels

\* handle_orderbook_delta, on the levels of one side
update_levels(levels, side, price, delta) ==
    LET i == first_level_at(levels, price, 1)
    IN  IF i > 0
        THEN LET new_qty == levels[i][2] + delta
             IN  IF new_qty <= 0 THEN pop(levels, i)
                 ELSE [levels EXCEPT ![i] = Level(price, new_qty)]
        ELSE IF delta > 0 THEN sort_levels(Append(levels, Level(price, delta)), side)
        ELSE levels

\* handle_orderbook_delta: if market in self.orderbook_cache: ...
handle_orderbook_delta(cache, msg) ==
    IF cache = Absent THEN cache
    ELSE IF msg.side = "yes"
         THEN [cache EXCEPT !.yes_levels = update_levels(@, "yes", msg.price, msg.delta)]
         ELSE [cache EXCEPT !.no_levels = update_levels(@, "no", msg.price, msg.delta)]

(***************************************************************************)
(* paper_trade_scanner.py, dynamic_trader.py, paper_trading.py: the ledger *)
(* trades.json.  Dollar amounts are in eighths of a dollar.                *)
(***************************************************************************)
MAX_POSITION_PER_TICKER == 600      \* $75
MAX_POSITION_PER_SERIES == 960      \* $120
MAX_TOTAL_EXPOSURE == 1600          \* $200
MAX_SINGLE_ADD == 320               \* $40
MAX_TOTAL == 1600                   \* paper_trade_scanner: $200
MAX_PER_SERIES == 960               \* paper_trade_scanner: $120
TARGET_POSITION_SIZE == 320         \* paper_trade_scanner: $40

\* a ticker "SERIES-STRIKE"; ticker.split('-')[0] is its series
Ticker(series, strike) == [series |-> series, strike |-> strike]
series_of(ticker) == ticker.series

\* t.get("current_position", t["position_size"])
position_of(t) ==
    IF t.current_position = None THEN t.position_size ELSE t.current_position.value

\* pending = [t for t in data["trades"] if t["status"] == "PENDING"]
pending_trades(ts) == SelectSeq(ts, LAMBDA t : t.status = "PENDING")

RECURSIVE sum_positions(_)
sum_positions(ts) ==
    IF ts = <<>> THEN 0 ELSE position_of(Head(ts)) + sum_positions(Tail(ts))

\* get_exposure / get_position_limits: total, by_series (summed) and
\* by_ticker (the last pending trade of the ticker)
exposure_total(ts) == sum_positions(pending_trades(ts))

exposure_by_series(ts, series) ==
    sum_positions(SelectSeq(pending_trades(ts), LAMBDA t : series_of(t.ticker) = series))

ticker_has_exposure(ts, ticker) ==
    \E i \in 1..Len(ts) : ts[i].status = "PENDING" /\ ts[i].ticker = ticker

exposure_by_ticker(ts, ticker) ==
    LET mine == SelectSeq(pending_trades(ts), LAMBDA t : t.ticker = ticker)
    IN  IF mine = <<>> THEN 0 ELSE position_of(mine[Len(mine)])

\* paper_trade_scanner.can_add_position
can_add_position(ts, ticker, size) ==
    IF exposure_total(ts) + size > MAX_TOTAL THEN FALSE
    ELSE IF exposure_by_series(ts, series_of(ticker)) + size > MAX_PER_SERIES THEN FALSE
    ELSE IF ticker_has_exposure(ts, ticker) THEN FALSE
    ELSE TRUE

\* dynamic_trader.check_position_limit
check_position_limit(ts, ticker, add_size) ==
    IF add_size > MAX_SINGLE_ADD THEN FALSE
    ELSE IF exposure_total(ts) + add_size > MAX_TOTAL_EXPOSURE THEN FALSE
    ELSE IF exposure_by_ticker(ts, ticker) + add_size > MAX_POSITION_PER_TICKER THEN FALSE
    ELSE IF exposure_by_series(ts, series_of(ticker)) + add_size > MAX_POSITION_PER_SERIES
         THEN FALSE
    ELSE TRUE

\* The entry price is kept as the fraction entry_num / entry_den (cents), so
\* that the average of BUY_MORE is exact.
RECURSIVE GCD(_, _)
GCD(a, b) == IF b = 0 THEN a ELSE GCD(b, a % b)

\* paper_trade_scanner.record_paper_trade: the data written back
record_paper_trade(data, ticker, cost) ==
    IF ~can_add_position(data.trades, ticker, TARGET_POSITION_SIZE) THEN data
    ELSE [trades |-> Append(data.trades,
                        [id |-> Len(data.trades) + 1,
                         ticker |-> ticker,
                         entry_num |-> cost, entry_den |-> 1,
                         position_size |-> TARGET_POSITION_SIZE,
                         current_position |-> Some(TARGET_POSITION_SIZE),
                         status |-> "PENDING",
                         result |-> "NONE",
                         adjustments |-> <<>>]),
          stats |-> [data.stats EXCEPT !.total = @ + 1, !.pending = @ + 1]]

\* paper_trading.record_recommendation: no current_position key
record_recommendation(data, ticker, price, position) ==
    [trades |-> Append(data.trades,
                    [id |-> Len(data.trades) + 1,
                     ticker |-> ticker,
                     entry_num |-> price, entry_den |-> 1,
                     position_size |-> position,
                     current_position |-> None,
                     status |-> "PENDING",
                     result |-> "NONE",
                     adjustments |-> <<>>]),
     stats |-> [data.stats EXCEPT !.total = @ + 1, !.pending = @ + 1]]

\* for trade in data["trades"]: if trade["id"] == trade_id: the position of
\* the first such trade, 0 when there is none
RECURSIVE find_trade(_, _, _)
find_trade(ts, trade_id, i) ==
    IF i > Len(ts) THEN 0
    ELSE IF ts[i].id = trade_id THEN i
    ELSE find_trade(ts, trade_id, i + 1)

\* paper_trading.update_result
update_result(data, trade_id, result) ==
    LET i == find_trade(data.trades, trade_id, 1)
    IN  IF i = 0 THEN data
        ELSE [trades |-> [data.trades EXCEPT ![i].status = "SETTLED", ![i].result = result],
              stats |-> IF result = "WIN"
                        THEN [data.stats EXCEPT !.wins = @ + 1, !.pending = @ - 1]
                        ELSE [data.stats EXCEPT !.losses = @ + 1, !.pending = @ - 1]]

\* dynamic_trader.execute_manual_adjustment(trade_id, action, price, size);
\* size is None or an amount
execute_manual_adjustment(data, trade_id, action, price, size) ==
    LET i == find_trade(data.trades, trade_id, 1)
    IN  IF i = 0 THEN data
        ELSE LET trade == data.trades[i]
                 current == position_of(trade)
                 \* pnl > 0, with pnl = position * (price - entry_price) / 100
                 gain == current * (price * trade.entry_den - trade.entry_num) > 0
                 sold == current \div 2
                 add_size == IF size = None \/ size.value = 0
                             THEN trade.position_size \div 2
                             ELSE size.value
                 new_position == current + add_size
                 \* new_avg_entry = (total_cost / new_position) * 100, in lowest terms
                 avg_num == current * trade.entry_num + add_size * price * trade.entry_den
                 avg_den == trade.entry_den * new_position
                 adjusted ==
                    IF action = "SELL_ALL"
                    THEN [trade EXCEPT !.status = "CLOSED",
                                       !.result = IF gain THEN "WIN" ELSE "LOSS"]
                    ELSE IF action = "SELL_HALF"
                    THEN [trade EXCEPT !.current_position = Some(current - sold),
                                       !.adjustments = Append(@, [action |-> "SELL_HALF",
                                                                  size |-> sold])]
                    ELSE IF action = "BUY_MORE"
                    THEN [trade EXCEPT !.current_position = Some(new_position),
                                       !.entry_num = avg_num \div GCD(avg_num, avg_den),
                                       !.entry_den = avg_den \div GCD(avg_num, avg_den),
                                       !.adjustments = Append(@, [action |-> "BUY_MORE",
                                                                  size |-> add_size])]
                    ELSE trade
             IN  [trades |-> [data.trades EXCEPT ![i] = adjusted], stats |-> data.stats]

(***************************************************************************)
(* position_calculator.py: PositionCalculator.  Fractions are exact,       *)
(* [n, d] in lowest terms with d > 0; balances are whole dollars.          *)
(***************************************************************************)
Frac(n, d) ==
    LET g == GCD(Abs(n), d)
    IN  IF n = 0 THEN [n |-> 0, d |-> 1] ELSE [n |-> n \div g, d |-> d \div g]
FracMul(x, y) == Frac(x.n * y.n, x.d * y.d)
FracLeq(x, y) == x.n * y.d <= y.n * x.d
FracMin(x, y) == IF FracLeq(x, y) THEN x ELSE y
FracMax(x, y) == IF FracLeq(x, y) THEN y ELSE x

\* DEFAULT_RISK_CONFIG
DEFAULT_RISK_CONFIG ==
    [max_single_position_pct |-> Frac(15, 100),
     max_portfolio_exposure_pct |-> Frac(50, 100),
     min_cash_reserve_pct |-> Frac(20, 100),
     kelly_fraction |-> Frac(25, 100)]

\* confidence_multipliers, with conf_mult.get(confidence, 0)
confidence_multiplier(confidence) ==
    IF confidence = "HIGH" THEN Frac(1, 1)
    ELSE IF confidence = "MEDIUM" THEN Frac(1, 2)
    ELSE Frac(0, 1)

\* win_prob_map.get(confidence, 0.5), in hundredths
win_prob(confidence) ==
    IF confidence = "HIGH" THEN 80
    ELSE IF confidence = "MEDIUM" THEN 65
    ELSE 50

\* calculate_kelly(confidence, price)
calculate_kelly(config, confidence, price) ==
    LET p == win_prob(confidence)
        cost == Min(price, 100 - price)
    IN  IF cost <= 0 \/ cost >= 100 THEN Frac(0, 1)
        ELSE LET \* b = (100 - cost) / cost; kelly = (b * p - q) / b
                 kelly == Frac((100 - cost) * p - (100 - p) * cost, 100 * (100 - cost))
                 scaled == FracMul(kelly, config.kelly_fraction)
             IN  FracMax(Frac(0, 1), FracMin(Frac(1, 1), scaled))

\* calculate(confidence, price, account_info); balance in dollars,
\* exposure_pct a fraction; "dollars" of the result is in cents
calculate(config, confidence, price, balance, exposure_pct) ==
    IF balance < 10 THEN [action |-> "SKIP", contracts |-> 0, dollars |-> 0]
    ELSE IF FracLeq(config.max_portfolio_exposure_pct, exposure_pct)
    THEN [action |-> "SKIP", contracts |-> 0, dollars |-> 0]
    ELSE IF confidence_multiplier(confidence).n <= 0
    THEN [action |-> "WATCH", contracts |-> 0, dollars |-> 0]
    ELSE LET kelly_pct == calculate_kelly(config, confidence, price)
             position_pct == FracMin(FracMul(kelly_pct, confidence_multiplier(confidence)),
                                     config.max_single_position_pct)
             available == FracMul(Frac(balance, 1),
                                  Frac(config.min_cash_reserve_pct.d - config.min_cash_reserve_pct.n,
                                       config.min_cash_reserve_pct.d))
             \* dollars = max(10, min(200, dollars))
             dollars == FracMax(Frac(10, 1),
                                FracMin(Frac(200, 1), FracMul(available, position_pct)))
             cost == Min(price, 100 - price)
             \* contracts = int(dollars * 100 / cost) if cost > 0 else 0
             contracts == IF cost > 0 THEN (dollars.n * 100) \div (dollars.d * cost) ELSE 0
         IN  [action |-> "BUY", contracts |-> contracts, dollars |-> contracts * cost]

(***************************************************************************)
(* The paginated fetch loops of parity_scanner.py, unified_scanner.py and  *)
(* kalshi_pipeline.py                                                      *)
(***************************************************************************)
UNIFIED_MAX_PAGES == 50     \* unified_scanner: for _ in range(50)
SERIES_MAX_PAGES == 10      \* kalshi_pipeline: for page in range(10)

\* what the server answers to one request: a page (full or short, with or
\* without a cursor), 429, or another error status
Page(full, cursor) == [status |-> 200, full |-> full, cursor |-> cursor]
TooManyRequests == [status |-> 429]
ServerError == [status |-> 500]
Responses == {Page(full, cursor) : full \in BOOLEAN, cursor \in BOOLEAN}
                \cup {TooManyRequests, ServerError}

\* parity_scanner.api_get: one retry after a 429, then raise_for_status();
\* None on any exception
api_get(first, second) ==
    LET resp == IF first.status = 429 THEN second ELSE first
    IN  IF resp.status = 200 THEN resp ELSE None

\* one turn of `while True` in parity_scanner.fetch_all_events and
\* fetch_markets_for_event_parallel, given what api_get returned:
\* the loop state after it
while_true_turn(data, pages) ==
    IF data = None THEN [pc |-> "done", cursor |-> FALSE, pages |-> pages]
    ELSE [pc |-> IF ~data.cursor \/ ~data.full THEN "done" ELSE "loop",
          cursor |-> data.cursor,
          pages |-> Min(pages + 1, MaxPages)]

\* one turn of `for _ in range(50)` in UnifiedScanner.fetch_all_events
unified_turn(resp, i, cursor, pages) ==
    IF resp.status = 429
    THEN [pc |-> IF i + 1 < UNIFIED_MAX_PAGES THEN "loop" ELSE "done",
          iter |-> i + 1, cursor |-> cursor, pages |-> pages]
    ELSE IF resp.status # 200
    THEN [pc |-> "done", iter |-> i, cursor |-> cursor, pages |-> pages]
    ELSE [pc |-> IF ~resp.cursor THEN "done"
                 ELSE IF i + 1 < UNIFIED_MAX_PAGES THEN "loop" ELSE "done",
          iter |-> IF ~resp.cursor THEN i ELSE i + 1,
          cursor |-> resp.cursor,
          pages |-> Min(pages + 1, MaxPages)]

\* one turn of `for page in range(10)` in kalshi_pipeline.fetch_markets_by_series
series_turn(resp, i, cursor, pages) ==
    IF resp.status # 200
    THEN [pc |-> "done", iter |-> i, cursor |-> cursor, pages |-> pages]
    ELSE [pc |-> IF ~resp.cursor THEN "done"
                 ELSE IF i + 1 < SERIES_MAX_PAGES THEN "loop" ELSE "done",
          iter |-> IF ~resp.cursor THEN i ELSE i + 1,
          cursor |-> resp.cursor,
          pages |-> Min(pages + 1, MaxPages)]

(***************************************************************************)
(* Pure functions under test: `call` holds the arguments, `ret` the result *)
(***************************************************************************)
Unset == [kind |-> "UNSET"]

ScanIdle ==
    /\ pc = "idle"
    /\ events = <<>>
    /\ fast_mode = FALSE
    /\ pending = {}
    /\ fetched = <<>>
    /\ all_opportunities = <<>>
    /\ stats = Stats0

ScanUnchanged == UNCHANGED scanvars

CacheIdle ==
    /\ now = 0
    /\ cache_time = NoTime
    /\ gdp_cache = NoData
    /\ cpi_cache = NoData
    /\ nws_cache = [k \in CacheKeys |-> Absent]
    /\ last_query = NoQuery

CacheUnchanged == UNCHANGED cachevars

PipelineIdle ==
    /\ pipeline_pc = "idle"
    /\ all_markets = <<>>
    /\ candidates = <<>>
    /\ pipeline_results = <<>>

PipelineUnchanged == UNCHANGED pipelinevars

ClientIdle ==
    /\ auto_reconnect = TRUE
    /\ max_reconnect_delay = DEFAULT_MAX_RECONNECT_DELAY
    /\ ws = "none"
    /\ connected = FALSE
    /\ reconnect_delay = 1
    /\ message_id = 1
    /\ subscriptions = <<>>
    /\ run_pc = "idle"
    /\ conn = 0
    /\ waits = <<>>
    /\ sent = <<>>
    /\ tasks = [c \in 1..MaxCoroutines |-> NoTask]

ClientUnchanged == UNCHANGED clientvars

BookIdle ==
    /\ orderbook_cache = Absent
    /\ book_net = [side \in {"yes", "no"} |-> [p \in 1..MaxPrice |-> 0]]
    /\ book_consistent = TRUE
    /\ book_seq = 0

BookUnchanged == UNCHANGED bookvars

LedgerIdle ==
    /\ trades = <<>>
    /\ ledger_stats = [total |-> 0, wins |-> 0, losses |-> 0, pending |-> 0]
    /\ ledger_ops = 0

LedgerUnchanged == UNCHANGED ledgervars

PagerIdle ==
    /\ pager_pc = "idle"
    /\ pager_iter = 0
    /\ pager_cursor = FALSE
    /\ pager_pages = 0

PagerUnchanged == UNCHANGED pagervars

RestIdle == PagerIdle /\ LedgerIdle /\ BookIdle /\ ClientIdle
RestUnchanged == PagerUnchanged /\ LedgerUnchanged /\ BookUnchanged /\ ClientUnchanged

\* the components a pure function does not touch
Idle == ScanIdle /\ CacheIdle /\ PipelineIdle /\ RestIdle
Frame == ScanUnchanged /\ CacheUnchanged /\ PipelineUnchanged /\ RestUnchanged

\* ---- check_single_market_parity over every pair of asks ----
InitSingle ==
    /\ \E ya \in 0..MaxCents, na \in 0..MaxCents :
          call = [fn |-> "check_single_market_parity",
                  market |-> Market(1, ya, na, 0, FALSE)]
    /\ ret = Unset
    /\ Idle

CallSingle ==
    /\ call.fn = "check_single_market_parity"
    /\ ret = Unset
    /\ ret' = check_single_market_parity(call.market)
    /\ UNCHANGED call
    /\ Frame

NextSingle == CallSingle

SpecSingle == InitSingle /\ [][NextSingle]_vars

\* ---- check_event_bracket_parity over bracket sets of up to MaxLegs markets ----
BracketAsks == {0, 1, 30, 33, 34, 40, 50, 99}

RECURSIVE SeqsUpTo(_, _)
SeqsUpTo(S, n) ==
    IF n = 0 THEN {<<>>}
    ELSE LET shorter == SeqsUpTo(S, n - 1)
         IN  shorter \cup {Append(q, x) : q \in {r \in shorter : Len(r) = n - 1}, x \in S}

\* the markets of one event with these YES asks; tickers are 1..n
BracketMarkets(asks) ==
    [i \in 1..Len(asks) |-> Market(i, asks[i], 0, 500, FALSE)]

InitBracket ==
    /\ \E asks \in SeqsUpTo(BracketAsks, MaxLegs) :
          call = [fn |-> "check_event_bracket_parity", markets |-> BracketMarkets(asks)]
    /\ ret = Unset
    /\ Idle

CallBracket ==
    /\ call.fn = "check_event_bracket_parity"
    /\ ret = Unset
    /\ ret' = check_event_bracket_parity(call.markets)
    /\ UNCHANGED call
    /\ Frame

NextBracket == CallBracket

SpecBracket == InitBracket /\ [][NextBracket]_vars

\* ---- both parity checks (SpecParity) ----
InitParity == InitSingle \/ InitBracket

NextParity == CallSingle \/ CallBracket

SpecParity == InitParity /\ [][NextParity]_vars

(***************************************************************************)
(* scan_all_parity (all events, parallel fetch): one pass over a snapshot  *)
(***************************************************************************)
\* The markets an event can hold: <<yes_ask, no_ask, volume_24h, bad>>.
EventPool ==
    { << <<46, 52, 2000, FALSE>> >>,                            \* 1.66 %
      << <<52, 46, 2000, FALSE>> >>,                            \* 1.66 % as well
      << <<40, 50, 200000, FALSE>> >>,                          \* 10.64 %
      << <<60, 50, 2000, FALSE>> >>,                            \* no parity
      << <<0, 50, 500, FALSE>> >>,                              \* no YES ask, low volume
      << <<30, 75, 600, FALSE>>, <<60, 45, 600, FALSE>> >>,     \* bracket parity only
      << <<46, 52, 2000, FALSE>>, <<40, 50, 2000, FALSE>> >>,   \* two singles
      << <<45, 50, 2000, TRUE>>, <<46, 52, 2000, FALSE>> >> }   \* a non-numeric yes_ask

\* the markets of event e; tickers are unique over the snapshot
EventMarkets(e, tpl) ==
    [i \in 1..Len(tpl) |-> Market(10 * e + i, tpl[i][1], tpl[i][2], tpl[i][3], tpl[i][4])]

Snapshots ==
    UNION { [1..n -> EventPool] : n \in 1..MaxEvents }

InitScan ==
    /\ \E snap \in Snapshots :
          events = [e \in DOMAIN snap |-> EventMarkets(e, snap[e])]
    /\ fast_mode \in BOOLEAN
    /\ pc = "idle"
    /\ pending = {}
    /\ fetched = [e \in DOMAIN events |-> "none"]
    /\ all_opportunities = <<>>
    /\ stats = Stats0
    /\ call = [fn |-> "scan_all_parity"]
    /\ ret = Unset
    /\ CacheIdle /\ PipelineIdle /\ RestIdle

\* lines 428-440: fetch the event list and submit one fetch per event
StartScan ==
    /\ pc = "idle"
    /\ call.fn = "scan_all_parity"
    /\ pc' = "scanning"
    /\ pending' = DOMAIN events
    /\ fetched' = [e \in DOMAIN events |-> "submitted"]
    /\ UNCHANGED <<call, ret, events, fast_mode, all_opportunities, stats>>
    /\ CacheUnchanged /\ PipelineUnchanged /\ RestUnchanged

\* lines 443-470: as_completed yields the future of event e, whose fetch
\* returned `markets`; the body of the loop runs on it
ProcessEvent(e, api_ok) ==
    LET markets == fetch_markets_for_event_parallel(events[e], api_ok)
        counted == [stats EXCEPT !.events_scanned = @ + 1,
                                 !.markets_scanned = @ + Len(markets)]
    IN  /\ pc = "scanning"
        /\ e \in pending
        /\ pending' = pending \ {e}
        /\ fetched' = [fetched EXCEPT ![e] = IF api_ok THEN "ok" ELSE "failed"]
        /\ IF fast_mode /\ total_volume(markets) < 1000
           THEN /\ stats' = [counted EXCEPT !.events_skipped_low_volume = @ + 1]
                /\ UNCHANGED <<pc, all_opportunities>>
           ELSE IF any_raises(markets)
           THEN \* the TypeError leaves scan_all_parity: nothing is returned
                /\ pc' = "aborted"
                /\ all_opportunities' = all_opportunities \o single_opps(markets)
                /\ stats' = [counted EXCEPT
                                !.single_parity_found = @ + Len(single_opps(markets))]
           ELSE /\ all_opportunities' =
                        all_opportunities \o single_opps(markets) \o bracket_opps(markets)
                /\ stats' = [counted EXCEPT
                                !.single_parity_found = @ + Len(single_opps(markets)),
                                !.bracket_parity_found = @ + Len(bracket_opps(markets))]
                /\ UNCHANGED pc
        /\ UNCHANGED <<call, ret, events, fast_mode>>
        /\ CacheUnchanged /\ PipelineUnchanged /\ RestUnchanged

FetchedEvent == \E e \in DOMAIN events : ProcessEvent(e, TRUE)
FailedEvent == \E e \in DOMAIN events : ProcessEvent(e, FALSE)

\* lines 479-487: sort and return
SortAndReturn ==
    /\ pc = "scanning"
    /\ pending = {}
    /\ all_opportunities' = sort_by_profit(all_opportunities)
    /\ stats' = [stats EXCEPT !.total_opportunities = Len(all_opportunities)]
    /\ pc' = "done"
    /\ ret' = [kind |-> "RETURNED"]
    /\ UNCHANGED <<call, events, fast_mode, pending, fetched>>
    /\ CacheUnchanged /\ PipelineUnchanged /\ RestUnchanged

NextScan == StartScan \/ FetchedEvent \/ FailedEvent \/ SortAndReturn

SpecScan == InitScan /\ [][NextScan]_vars

\* ---- detect_sources over every text that matches up to MaxHits entries ----
RECURSIVE SubsetsUpTo(_, _)
SubsetsUpTo(S, n) ==
    IF n = 0 THEN {{}}
    ELSE LET smaller == SubsetsUpTo(S, n - 1)
         IN  smaller \cup {q \cup {x} : q \in smaller, x \in S}

\* a hit h <= Len(OFFICIAL_SOURCE_PATTERNS) is a regex entry, a larger one
\* is keyword h - Len(OFFICIAL_SOURCE_PATTERNS)
NumPatterns == Len(OFFICIAL_SOURCE_PATTERNS)
AllHits == 1..(NumPatterns + Len(KEYWORD_HINTS))

TextOf(speculation, hits) ==
    [speculation |-> speculation,
     regex |-> {h \in hits : h <= NumPatterns},
     keywords |-> {h - NumPatterns : h \in {g \in hits : g > NumPatterns}}]

InitDetect ==
    /\ \E speculation \in BOOLEAN, hits \in SubsetsUpTo(AllHits, MaxHits) :
          call = [fn |-> "detect_sources", text |-> TextOf(speculation, hits)]
    /\ ret = Unset
    /\ Idle

CallDetect ==
    /\ call.fn = "detect_sources"
    /\ ret = Unset
    /\ ret' = detect_sources(call.text)
    /\ UNCHANGED call
    /\ Frame

NextDetect == CallDetect

SpecDetect == InitDetect /\ [][NextDetect]_vars

(***************************************************************************)
(* The forecast caches over time (SpecCache)                               *)
(***************************************************************************)
\* the instants at which something happens: within the TTL, at it, a day
\* later and a day and a little later
Instants == {t \in {0, 200, 300, 86400, 86500, 86700, 86701} : t <= MaxTime}
NowcastValues == {31}                   \* what the provider publishes, or an error
Thresholds == {25}
SeriesTickers == {"KXGDP", "KXCPI", "KXFED"}

InitCache ==
    /\ CacheIdle
    /\ ScanIdle /\ PipelineIdle /\ RestIdle
    /\ call = [fn |-> "NowcastFetcher"]
    /\ ret = Unset

Tick ==
    /\ call.fn = "NowcastFetcher"
    /\ \E t \in Instants :
          /\ t > now
          /\ now' = t
    /\ UNCHANGED <<call, ret, cache_time, gdp_cache, cpi_cache, nws_cache, last_query>>
    /\ ScanUnchanged /\ PipelineUnchanged /\ RestUnchanged

\* get_for_market served from the cache: _refresh_cache returns at once
QueryCached ==
    /\ call.fn = "NowcastFetcher"
    /\ cache_is_fresh(now, cache_time)
    /\ \E series \in SeriesTickers, threshold \in Thresholds :
          /\ ret' = get_for_market(series, threshold, gdp_cache, cpi_cache)
          /\ last_query' = [kind |-> "nowcast", at |-> now, fetched_at |-> cache_time,
                            refetched |-> FALSE]
    /\ UNCHANGED <<call, now, cache_time, gdp_cache, cpi_cache, nws_cache>>
    /\ ScanUnchanged /\ PipelineUnchanged /\ RestUnchanged

\* get_for_market when _refresh_cache fetches both nowcasts again; each
\* fetch gives a value or an error dict
QueryRefresh ==
    /\ call.fn = "NowcastFetcher"
    /\ ~cache_is_fresh(now, cache_time)
    /\ \E gdp \in {Data(v, now) : v \in NowcastValues} \cup {ErrorData},
          cpi \in {Data(v, now) : v \in NowcastValues} \cup {ErrorData},
          series \in SeriesTickers, threshold \in Thresholds :
          /\ gdp_cache' = gdp
          /\ cpi_cache' = cpi
          /\ cache_time' = now
          /\ ret' = get_for_market(series, threshold, gdp, cpi)
          /\ last_query' = [kind |-> "nowcast", at |-> now, fetched_at |-> now,
                            refetched |-> TRUE]
    /\ UNCHANGED <<call, now, nws_cache>>
    /\ ScanUnchanged /\ PipelineUnchanged /\ RestUnchanged

\* fetch_nws_forecast / fetch_nws_quantitative: a key in _nws_cache is served
\* as it is, whenever it was stored; otherwise the response, or None on any
\* request error, is stored under the key and returned
FetchNws ==
    /\ call.fn = "NowcastFetcher"
    /\ \E key \in CacheKeys :
          IF nws_cache[key] # Absent
          THEN /\ ret' = nws_cache[key]
               /\ last_query' = [kind |-> "nws", at |-> now,
                                 fetched_at |-> nws_cache[key].fetched_at,
                                 refetched |-> FALSE]
               /\ UNCHANGED nws_cache
          ELSE \E ok \in BOOLEAN :
               /\ nws_cache' = [nws_cache EXCEPT ![key] =
                                    [kind |-> IF ok THEN "periods" ELSE "failed",
                                     fetched_at |-> now]]
               /\ ret' = nws_cache'[key]
               /\ last_query' = [kind |-> "nws", at |-> now, fetched_at |-> now,
                                 refetched |-> TRUE]
    /\ UNCHANGED <<call, now, cache_time, gdp_cache, cpi_cache>>
    /\ ScanUnchanged /\ PipelineUnchanged /\ RestUnchanged

NextCache == Tick \/ QueryCached \/ QueryRefresh \/ FetchNws

SpecCache == InitCache /\ [][NextCache]_vars

(***************************************************************************)
(* The forecast-edge path (SpecForecast): one weather scan, or one run of  *)
(* the GDP report, over a batch of up to MaxBatch markets                  *)
(***************************************************************************)

\* what get_nws_forecast_for_date returned for the market: None or a forecast
WeatherForecasts == {None, Forecast(440, "HIGH"), Forecast(530, "MEDIUM"), Forecast(580, "LOW")}

\* <<yes_bid, yes_ask, no_ask, last_price>>
WeatherPrices == { <<40, 42, 60, 41>>, <<88, 91, 11, 89>>, <<0, 0, 0, 70>>, <<0, 0, 0, 0>> }

ParsedMarket(parsed, forecast, direction, prices) ==
    [parsed |-> parsed, ticker |-> 0, metric |-> "high_temp", threshold |-> 500,
     direction |-> direction, forecast |-> forecast,
     yes_bid |-> prices[1], yes_ask |-> prices[2], no_ask |-> prices[3],
     last_price |-> prices[4]]

WeatherPool ==
    {ParsedMarket(TRUE, f, d, pr) :
        f \in WeatherForecasts, d \in {"above", "below"}, pr \in WeatherPrices}
    \cup {ParsedMarket(FALSE, None, "above", <<40, 42, 60, 41>>)}

\* tickers are the positions in the batch
Ticketed(batch) == [i \in 1..Len(batch) |-> [batch[i] EXCEPT !.ticker = i]]

Batches(pool) == SeqsUpTo(pool, MaxBatch) \ {<<>>}

GdpThresholds == {None, Some(20), Some(25), Some(35)}
GdpPrices == {30, 70, 95}
GdpPool == {[ticker |-> 0, threshold |-> t, price |-> pr] : t \in GdpThresholds, pr \in GdpPrices}
ProviderResults == {None, Some(0), Some(18), Some(31)}

InitForecast ==
    /\ \/ \E batch \in Batches(WeatherPool) :
             call = [fn |-> "scan_weather_markets", markets |-> Ticketed(batch), min_edge |-> 5]
       \/ \E batch \in Batches(GdpPool), provider \in ProviderResults :
             call = [fn |-> "main", markets |-> Ticketed(batch), provider |-> provider]
    /\ ret = Unset
    /\ Idle

CallScanWeather ==
    /\ call.fn = "scan_weather_markets"
    /\ ret = Unset
    /\ ret' = scan_weather_markets(call.markets, call.min_edge)
    /\ UNCHANGED call
    /\ Frame

CallMain ==
    /\ call.fn = "main"
    /\ ret = Unset
    /\ ret' = main(call.markets, call.provider)
    /\ UNCHANGED call
    /\ Frame

NextForecast == CallScanWeather \/ CallMain

SpecForecast == InitForecast /\ [][NextForecast]_vars

(***************************************************************************)
(* The tier gate (SpecTierGate): UnifiedScanner.scan run at two acceptance *)
(* tiers over one fixed batch of events                                    *)
(***************************************************************************)
\* texts of tier 1 (BLS), 2 (Treasury), 3 (USTR), 4 (Crypto) and 9 (none)
TierTexts == {TextOf(FALSE, hits) : hits \in {{1}, {6}, {17}, {13}, {}}}
EventMarket(text, volume) == [text |-> text, volume |-> volume]

ScanEvent(api_ok, markets, days_left) ==
    [ticker |-> 0, api_ok |-> api_ok, markets |-> markets, days_left |-> days_left]

ScanEventPool ==
    {ScanEvent(TRUE, <<EventMarket(t, 5000)>>, 10) : t \in TierTexts}
    \cup {ScanEvent(TRUE, <<EventMarket(TextOf(FALSE, {1}), 30), EventMarket(TextOf(FALSE, {}), 20)>>, 10),
          ScanEvent(TRUE, <<EventMarket(TextOf(FALSE, {6}), 5000)>>, 9999),
          ScanEvent(FALSE, <<>>, 10)}

AcceptanceTiers == {1, 2, 3, 4, 9}

InitTierGate ==
    /\ \E batch \in Batches(ScanEventPool) :
          call = [fn |-> "scan", events |-> Ticketed(batch), min_volume |-> 100, max_days |-> 90]
    /\ ret = [kind |-> "REPORTS", reports |-> <<>>]
    /\ Idle

\* one scan of the batch by a scanner built with min_tier
ScanAtTier ==
    /\ call.fn = "scan"
    /\ Len(ret.reports) < 2
    /\ \E min_tier \in AcceptanceTiers :
          ret' = [ret EXCEPT !.reports =
                    Append(@, scan(call.events, call.min_volume, call.max_days, min_tier))]
    /\ UNCHANGED call
    /\ Frame

NextTierGate == ScanAtTier

SpecTierGate == InitTierGate /\ [][NextTierGate]_vars

(***************************************************************************)
(* The edge computations (SpecEdge): calculate_edge of the report on any   *)
(* signal, side, price and cost, and the two edges of the weather scan     *)
(***************************************************************************)
Signals == {"NO_SIGNAL", "WEAK", "MODERATE", "STRONG"}
SignalData(signal, fair_yes) ==
    [z_score |-> 0, signal |-> signal, fair_yes |-> fair_yes, fair_no |-> 100 - fair_yes]
EdgePrices == {0, 30, 70, 100}
TxCosts == {0, 5}
\* probabilities and mid prices in tenths
EdgeProbs == {10, 23, 159, 500, 841, 977, 990}
EdgeMids == {5, 410, 415, 500, 895, 1000}

InitEdge ==
    /\ \/ \E signal \in Signals, fair_yes \in 0..MaxCents, market_price \in EdgePrices,
             side \in {"YES", "NO"}, tx_cost \in TxCosts :
             call = [fn |-> "calculate_edge", signal_data |-> SignalData(signal, fair_yes),
                     market_price |-> market_price, side |-> side, tx_cost |-> tx_cost]
       \/ \E nws_prob \in EdgeProbs, mid_price \in EdgeMids :
             call = [fn |-> "yes_no_edges", nws_prob |-> nws_prob, mid_price |-> mid_price]
    /\ ret = Unset
    /\ Idle

CallCalculateEdge ==
    /\ call.fn = "calculate_edge"
    /\ ret = Unset
    /\ ret' = calculate_edge(call.signal_data, call.market_price, call.side, call.tx_cost)
    /\ UNCHANGED call
    /\ Frame

CallYesNoEdges ==
    /\ call.fn = "yes_no_edges"
    /\ ret = Unset
    /\ ret' = yes_no_edges(call.nws_prob, call.mid_price)
    /\ UNCHANGED call
    /\ Frame

NextEdge == CallCalculateEdge \/ CallYesNoEdges

SpecEdge == InitEdge /\ [][NextEdge]_vars

(***************************************************************************)
(* The probability model (SpecProb): estimate_probability over forecasts   *)
(* around a threshold, calculate_signal over nowcasts, thresholds, sigmas  *)
(***************************************************************************)
ProbThreshold == 500                        \* 50.0 degrees
ProbValues == {ProbThreshold + d : d \in (-MaxDiff)..MaxDiff}
ProbMetrics == {"high_temp", "low_temp"}
\* 2.3 is left out: 2.3 - 0.3 is 1.9999999999999998 in doubles
Nowcasts == (0..MaxNowcast) \ {23}
SignalThresholds == {0, 10, 20, 25, 35}
Sigmas == {10, 0, -10}

InitProb ==
    /\ \/ \E nws_value \in ProbValues, direction \in {"above", "below"}, metric \in ProbMetrics :
             call = [fn |-> "estimate_probability", nws_value |-> nws_value,
                     threshold |-> ProbThreshold, direction |-> direction, metric |-> metric]
       \/ \E nowcast \in Nowcasts, threshold \in SignalThresholds, sigma \in Sigmas :
             call = [fn |-> "calculate_signal", nowcast |-> nowcast, threshold |-> threshold,
                     sigma |-> sigma, bias |-> GDP_BIAS]
    /\ ret = Unset
    /\ Idle

CallEstimateProbability ==
    /\ call.fn = "estimate_probability"
    /\ ret = Unset
    /\ ret' = [kind |-> "PROB",
               value |-> estimate_probability(call.nws_value, call.threshold,
                                              call.direction, call.metric)]
    /\ UNCHANGED call
    /\ Frame

CallCalculateSignal ==
    /\ call.fn = "calculate_signal"
    /\ ret = Unset
    /\ LET result == calculate_signal(call.nowcast, call.threshold, call.sigma, call.bias)
       IN  ret' = IF result = Raise THEN Raise ELSE [kind |-> "SIGNAL", data |-> result]
    /\ UNCHANGED call
    /\ Frame

NextProb == CallEstimateProbability \/ CallCalculateSignal

SpecProb == InitProb /\ [][NextProb]_vars

(***************************************************************************)
(* The NWS forecast lookups (SpecNws): get_nws_temp_for_date for target    *)
(* dates around today, get_nws_precip_for_month for this month             *)
(***************************************************************************)
Today == 0
Quant(series) == [kind |-> "QUANT", series |-> series]

\* gridpoint series relative to the target date d: failed request, empty,
\* an entry with a value, an entry with a null value
TempQuants(d) ==
    {None, Quant(<<>>), Quant(<<QuantEntry(d - 1, Some(80)), QuantEntry(d, Some(100))>>),
     Quant(<<QuantEntry(d, NoValue)>>)}

\* forecast period lists relative to the target date d
PeriodLists(d) ==
    {None, Periods(<<>>),
     Periods(<<Period(d, TRUE, 550), Period(d, FALSE, 400)>>),
     Periods(<<Period(d, FALSE, 400), Period(d + 1, TRUE, 570), Period(d + 1, FALSE, 410)>>),
     Periods(<<Period(d - 1, TRUE, 530), Period(d + 1, TRUE, 570)>>),
     Periods(<<Period(d + 2, TRUE, 600), Period(d + 2, FALSE, 450)>>)}

ThisMonth == 0
PrecipQuants ==
    {None, Quant(<<>>), Quant(<<QuantEntry(ThisMonth, Some(0)), QuantEntry(ThisMonth + 1, Some(25))>>),
     Quant(<<QuantEntry(ThisMonth, Some(25)), QuantEntry(ThisMonth, NoValue), QuantEntry(ThisMonth, Some(5))>>)}

InitNws ==
    /\ \/ \E d \in (-2)..MaxLead, metric \in {"high_temp", "low_temp", "temperature"} :
          \E quant \in TempQuants(d), periods \in PeriodLists(d) :
             call = [fn |-> "get_nws_temp_for_date", quant |-> quant, periods |-> periods,
                     target_date |-> d, metric |-> metric]
       \/ \E quant \in PrecipQuants, metric \in {"snow", "rain"} :
             call = [fn |-> "get_nws_precip_for_month", quant |-> quant,
                     year_month |-> ThisMonth, metric |-> metric]
    /\ ret = Unset
    /\ Idle

CallTempForDate ==
    /\ call.fn = "get_nws_temp_for_date"
    /\ ret = Unset
    /\ ret' = get_nws_temp_for_date(call.quant, call.periods, call.target_date, Today, call.metric)
    /\ UNCHANGED call
    /\ Frame

CallPrecipForMonth ==
    /\ call.fn = "get_nws_precip_for_month"
    /\ ret = Unset
    /\ ret' = get_nws_precip_for_month(call.quant, call.year_month, call.metric)
    /\ UNCHANGED call
    /\ Frame

NextNws == CallTempForDate \/ CallPrecipForMonth

SpecNws == InitNws /\ [][NextNws]_vars

(***************************************************************************)
(* The risk score (SpecRisk): calculate_risk_score on edges, volumes and   *)
(* leg counts either side of each of its steps                             *)
(***************************************************************************)
\* profit_pct in hundredths of a percent
RiskEdges == {0, 29, 30, 31, 100, 101, 300, 301, 500, 501, 1000}
RiskVolumes == {0, 999, 1000, 1001, 10000, 10001, 100000, 100001}
RiskLegs == 1..(MaxLegs + 3)

InitRisk ==
    /\ \E profit_pct \in RiskEdges, volume \in RiskVolumes, num_legs \in RiskLegs,
          is_bracket \in BOOLEAN :
          call = [fn |-> "calculate_risk_score", profit_pct |-> profit_pct, volume |-> volume,
                  num_legs |-> num_legs, is_bracket |-> is_bracket]
    /\ ret = Unset
    /\ Idle

CallRiskScore ==
    /\ call.fn = "calculate_risk_score"
    /\ ret = Unset
    /\ ret' = [kind |-> "SCORE",
               value |-> calculate_risk_score(call.profit_pct, 100, call.volume,
                                              call.num_legs, call.is_bracket)]
    /\ UNCHANGED call
    /\ Frame

NextRisk == CallRiskScore

SpecRisk == InitRisk /\ [][NextRisk]_vars

(***************************************************************************)
(* The analysis pipeline (SpecPipeline): run_pipeline over the markets the *)
(* API returned for the watchlist                                          *)
(***************************************************************************)
MIN_VOLUME == 100           \* quick_filter(markets, min_volume=100)
TOP_N == 2                  \* run_pipeline(top_n=2)

\* the markets as the API returns them: a BEA text (tier 1), a USTR text
\* (tier 3), with and without a threshold in the title
PipelinePool ==
    {ApiMarket("KXGDP", Some(25), TextOf(FALSE, {2}), 90, 500, Absent),
     ApiMarket("KXGDP", Some(25), TextOf(FALSE, {2}), 10, 500, Some("rules")),
     ApiMarket("KXCPI", None, TextOf(FALSE, {2}), 95, 500, Absent),
     ApiMarket("KXGDP", Some(25), TextOf(FALSE, {2}), 50, 500, Absent),
     ApiMarket("KXGDP", Some(25), TextOf(FALSE, {2}), 90, 50, Some("rules")),
     ApiMarket("KXFED", Some(25), TextOf(FALSE, {17}), 90, 500, Some("rules"))}

MarketDetails == {None, [rules_primary |-> "rules", rules_secondary |-> ""]}
ProviderData == {Data(v, 0) : v \in NowcastValues} \cup {ErrorData}

InitPipeline ==
    /\ \E batch \in Batches(PipelinePool), dry_run \in BOOLEAN :
          call = [fn |-> "run_pipeline", response |-> Ticketed(batch),
                  top_n |-> TOP_N, dry_run |-> dry_run]
    /\ ret = Unset
    /\ PipelineIdle
    /\ ScanIdle /\ RestIdle
    /\ CacheIdle

\* Step 2: all_markets is the list of the dicts fetched, each given a
\* rules_primary key
FetchAllMarkets ==
    /\ call.fn = "run_pipeline"
    /\ pipeline_pc = "idle"
    /\ all_markets' = [i \in 1..Len(call.response) |-> with_rules_key(call.response[i])]
    /\ pipeline_pc' = "fetched"
    /\ UNCHANGED <<call, ret, candidates, pipeline_results>>
    /\ ScanUnchanged /\ RestUnchanged /\ CacheUnchanged

\* Step 3: quick_filter marks the dicts it accepts; the first top_n are
\* kept; the pipeline returns here when none is left or on a dry run
QuickFilter ==
    /\ pipeline_pc = "fetched"
    /\ all_markets' = [i \in 1..Len(all_markets) |-> filter_marked(all_markets[i], MIN_VOLUME)]
    /\ candidates' = first_n(quick_filter(all_markets, MIN_VOLUME), call.top_n)
    /\ IF candidates' = <<>> \/ call.dry_run
       THEN pipeline_pc' = "done" /\ ret' = [kind |-> "RETURNED"]
       ELSE pipeline_pc' = "research" /\ UNCHANGED ret
    /\ UNCHANGED <<call, pipeline_results>>
    /\ ScanUnchanged /\ RestUnchanged /\ CacheUnchanged

\* Step 4, one turn of the loop: the detail request (details, or None when
\* it fails), then the nowcast lookup for a market with a threshold, through
\* NowcastFetcher.get_for_market (which refetches when the cache is not fresh)
ResearchCandidate ==
    /\ pipeline_pc = "research"
    /\ Len(pipeline_results) < Len(candidates)
    /\ \E details \in MarketDetails, gdp \in ProviderData, cpi \in ProviderData :
          LET i == candidates[Len(pipeline_results) + 1]
              market == with_details(all_markets[i], details)
              lookup == market.threshold # None
              refresh == lookup /\ ~cache_is_fresh(now, cache_time)
              new_gdp == IF refresh THEN gdp ELSE gdp_cache
              new_cpi == IF refresh THEN cpi ELSE cpi_cache
              nowcast_data == IF lookup
                              THEN get_for_market(market.series, market.threshold.value,
                                                  new_gdp, new_cpi)
                              ELSE None
          IN  /\ (~refresh => (gdp = ErrorData /\ cpi = ErrorData))
              /\ gdp_cache' = new_gdp
              /\ cpi_cache' = new_cpi
              /\ cache_time' = IF refresh THEN now ELSE cache_time
              /\ last_query' = IF lookup
                               THEN [kind |-> "nowcast", at |-> now,
                                     fetched_at |-> cache_time', refetched |-> refresh]
                               ELSE last_query
              /\ all_markets' = [all_markets EXCEPT ![i] =
                                    IF nowcast_data # None
                                    THEN [market EXCEPT !._nowcast = Some(nowcast_data)]
                                    ELSE market]
              /\ pipeline_results' = Append(pipeline_results,
                                        [market |-> i, nowcast |-> nowcast_data])
    /\ UNCHANGED <<call, ret, pipeline_pc, candidates, now, nws_cache>>
    /\ ScanUnchanged /\ RestUnchanged

\* Step 5: the report is printed and the results returned
ReturnResults ==
    /\ pipeline_pc = "research"
    /\ Len(pipeline_results) = Len(candidates)
    /\ pipeline_pc' = "done"
    /\ ret' = [kind |-> "RETURNED"]
    /\ UNCHANGED <<call, all_markets, candidates, pipeline_results>>
    /\ ScanUnchanged /\ RestUnchanged /\ CacheUnchanged

NextPipeline == FetchAllMarkets \/ QuickFilter \/ ResearchCandidate \/ ReturnResults

SpecPipeline == InitPipeline /\ [][NextPipeline]_vars

(***************************************************************************)
(* KalshiWebSocketClient: run(), the server, and subscribe / unsubscribe   *)
(* coroutines                                                              *)
(***************************************************************************)
ReconnectCaps == {1, 3, DEFAULT_MAX_RECONNECT_DELAY}
Channels == {"ticker", "orderbook_delta"}
Coroutines == 1..MaxCoroutines

OutsideClientIdle == ScanIdle /\ CacheIdle /\ PipelineIdle /\ BookIdle /\ LedgerIdle /\ PagerIdle
OutsideClient == UNCHANGED <<call, ret, scanvars, cachevars, pipelinevars, bookvars, ledgervars, pagervars>>

\* KalshiWebSocketClient(auto_reconnect=..., max_reconnect_delay=...), and
\* run() called on it
InitRun ==
    /\ call = [fn |-> "run"]
    /\ ret = Unset
    /\ auto_reconnect \in BOOLEAN
    /\ max_reconnect_delay \in ReconnectCaps
    /\ ws = "none"
    /\ connected = FALSE
    /\ reconnect_delay = 1
    /\ message_id = 1
    /\ subscriptions = <<>>
    /\ run_pc = "start"
    /\ conn = 0
    /\ waits = <<>>
    /\ sent = <<>>
    /\ tasks = [c \in Coroutines |-> NoTask]
    /\ OutsideClientIdle

\* the except branches of run(): self.connected = False, then sleep or break
ConnectionLost ==
    /\ connected' = FALSE
    /\ IF auto_reconnect
       THEN run_pc' = "sleeping" /\ waits' = Append(waits, reconnect_delay)
       ELSE run_pc' = "done" /\ UNCHANGED waits

\* top of the while loop: connect if not connected, else iterate self.ws
RunLoopTop ==
    /\ run_pc = "start"
    /\ run_pc' = IF connected THEN "listening" ELSE "connecting"
    /\ UNCHANGED <<auto_reconnect, max_reconnect_delay, ws, connected, reconnect_delay,
                   message_id, subscriptions, conn, waits, sent, tasks>>
    /\ OutsideClient

\* connect() returns: a new connection object, connected, delay reset
ConnectSucceeds ==
    /\ run_pc = "connecting"
    /\ conn < MaxConnections
    /\ ws' = "open"
    /\ conn' = conn + 1
    /\ connected' = TRUE
    /\ reconnect_delay' = 1
    /\ waits' = <<>>
    /\ run_pc' = "listening"
    /\ UNCHANGED <<auto_reconnect, max_reconnect_delay, message_id, subscriptions, sent, tasks>>
    /\ OutsideClient

\* connect() raises: connected = False, and run() catches the exception
ConnectFails ==
    /\ run_pc = "connecting"
    /\ Len(waits) < MaxRetries
    /\ ConnectionLost
    /\ UNCHANGED <<auto_reconnect, max_reconnect_delay, ws, reconnect_delay,
                   message_id, subscriptions, conn, sent, tasks>>
    /\ OutsideClient

\* the server or the network ends the open connection: a close with code
\* 1000 / 1001, or anything else
ServerCloses ==
    /\ ws = "open"
    /\ ws' \in {"closed_ok", "closed_error"}
    /\ UNCHANGED <<auto_reconnect, max_reconnect_delay, connected, reconnect_delay,
                   message_id, subscriptions, run_pc, conn, waits, sent, tasks>>
    /\ OutsideClient

\* async for message in self.ws: the iterator ends without an exception
\* after a close with code 1000 / 1001, and run() is back at the loop top
RunStreamEnds ==
    /\ run_pc = "listening"
    /\ ws = "closed_ok"
    /\ run_pc' = "start"
    /\ UNCHANGED <<auto_reconnect, max_reconnect_delay, ws, connected, reconnect_delay,
                   message_id, subscriptions, conn, waits, sent, tasks>>
    /\ OutsideClient

\* async for message in self.ws: ConnectionClosed is raised
RunConnectionClosed ==
    /\ run_pc = "listening"
    /\ ws = "closed_error"
    /\ ConnectionLost
    /\ UNCHANGED <<auto_reconnect, max_reconnect_delay, ws, reconnect_delay,
                   message_id, subscriptions, conn, sent, tasks>>
    /\ OutsideClient

\* asyncio.sleep(self.reconnect_delay) returns: the delay doubles up to the cap
RunSleepDone ==
    /\ run_pc = "sleeping"
    /\ reconnect_delay' = next_reconnect_delay(reconnect_delay, max_reconnect_delay)
    /\ run_pc' = "start"
    /\ UNCHANGED <<auto_reconnect, max_reconnect_delay, ws, connected,
                   message_id, subscriptions, conn, waits, sent, tasks>>
    /\ OutsideClient

RunStep ==
    \/ RunLoopTop
    \/ ConnectSucceeds
    \/ ConnectFails
    \/ RunStreamEnds
    \/ RunConnectionClosed
    \/ RunSleepDone

NextRun == RunStep \/ ServerCloses

SpecRun == InitRun /\ [][NextRun]_vars

\* the event loop resumes run() whenever it can take a step; nothing is
\* assumed about the server, and connect() may fail every time
SpecRunFair ==
    /\ InitRun
    /\ [][NextRun]_vars
    /\ WF_vars(RunLoopTop)
    /\ WF_vars(RunStreamEnds)
    /\ WF_vars(RunConnectionClosed)
    /\ WF_vars(RunSleepDone)
    /\ WF_vars(ConnectSucceeds \/ ConnectFails)

\* ---- run() together with subscribe / unsubscribe coroutines ----
InitClient ==
    /\ call = [fn |-> "client"]
    /\ ret = Unset
    /\ auto_reconnect = TRUE
    /\ max_reconnect_delay = DEFAULT_MAX_RECONNECT_DELAY
    /\ ws = "none"
    /\ connected = FALSE
    /\ reconnect_delay = 1
    /\ message_id = 1
    /\ subscriptions = <<>>
    /\ run_pc = "start"
    /\ conn = 0
    /\ waits = <<>>
    /\ sent = <<>>
    /\ tasks = [c \in Coroutines |-> NoTask]
    /\ OutsideClientIdle

\* subscribe(channels) runs up to await self.ws.send(...); with self.ws
\* None the call raises AttributeError
SubscribeCall(c) ==
    /\ tasks[c].pc # "sending"
    /\ message_id <= MaxMessageId
    /\ \E channels \in Channels :
          tasks' = [tasks EXCEPT ![c] =
                       IF ws = "none"
                       THEN [NoTask EXCEPT !.pc = "failed"]
                       ELSE subscription_msg(message_id, channels, conn)]
    /\ UNCHANGED <<auto_reconnect, max_reconnect_delay, ws, connected, reconnect_delay,
                   message_id, subscriptions, run_pc, conn, waits, sent>>
    /\ OutsideClient

\* unsubscribe(subscription_id) runs up to await self.ws.send(...)
UnsubscribeCall(c) ==
    /\ tasks[c].pc # "sending"
    /\ message_id <= MaxMessageId
    /\ \E sid \in 1..MaxMessageId :
          tasks' = [tasks EXCEPT ![c] =
                       IF ws = "none"
                       THEN [NoTask EXCEPT !.pc = "failed"]
                       ELSE unsubscribe_msg(message_id, sid, conn)]
    /\ UNCHANGED <<auto_reconnect, max_reconnect_delay, ws, connected, reconnect_delay,
                   message_id, subscriptions, run_pc, conn, waits, sent>>
    /\ OutsideClient

\* the send of a coroutine completes, and the coroutine runs to its end:
\* subscribe tracks self.message_id as it is now and returns it, unsubscribe
\* drops the id it was given; both increment self.message_id
SendCompletes(c) ==
    /\ tasks[c].pc = "sending"
    /\ tasks[c].conn = conn
    /\ ws = "open"
    /\ sent' = Append(sent, Command(tasks[c]))
    /\ IF tasks[c].cmd = "subscribe"
       THEN /\ subscriptions' = track(subscriptions, message_id, tasks[c].channels)
            /\ tasks' = [tasks EXCEPT ![c].pc = "done", ![c].result = message_id]
       ELSE /\ subscriptions' = untrack(subscriptions, tasks[c].sid)
            /\ tasks' = [tasks EXCEPT ![c].pc = "done"]
    /\ message_id' = message_id + 1
    /\ UNCHANGED <<auto_reconnect, max_reconnect_delay, ws, connected, reconnect_delay,
                   run_pc, conn, waits>>
    /\ OutsideClient

\* the send raises ConnectionClosed: the connection it was started on is closed
SendFails(c) ==
    /\ tasks[c].pc = "sending"
    /\ (tasks[c].conn # conn \/ ws # "open")
    /\ tasks' = [tasks EXCEPT ![c].pc = "failed"]
    /\ UNCHANGED <<auto_reconnect, max_reconnect_delay, ws, connected, reconnect_delay,
                   message_id, subscriptions, run_pc, conn, waits, sent>>
    /\ OutsideClient

NextClient ==
    \/ RunStep
    \/ ServerCloses
    \/ \E c \in Coroutines : SubscribeCall(c)
    \/ \E c \in Coroutines : UnsubscribeCall(c)
    \/ \E c \in Coroutines : SendCompletes(c)
    \/ \E c \in Coroutines : SendFails(c)

SpecClient == InitClient /\ [][NextClient]_vars

(***************************************************************************)
(* MessageHandlers: an orderbook snapshot and the deltas that follow it    *)
(***************************************************************************)
BookPrices == 1..MaxPrice
BookQuantities == {1, 2}
BookDeltas == {-2, -1, 1, 2}
Sides == {"yes", "no"}

\* the levels at the prices of S with quantities q, highest price first
RECURSIVE levels_desc(_, _)
levels_desc(S, q) ==
    IF S = {} THEN <<>>
    ELSE LET m == CHOOSE p \in S : \A r \in S : r <= p
         IN  <<Level(m, q[m])>> \o levels_desc(S \ {m}, q)

Reversed(s) == [k \in 1..Len(s) |-> s[Len(s) + 1 - k]]

\* snapshots with positive quantities and distinct prices, YES levels in
\* descending and NO levels in ascending price order; both sides of one
\* snapshot hold the same prices and quantities
BookSnapshots ==
    {[yes |-> levels_desc(S, q), no |-> Reversed(levels_desc(S, q))] :
        <<S, q>> \in {<<S, q>> \in (SUBSET BookPrices) \X [BookPrices -> BookQuantities] :
                        \A p \in BookPrices \ S : q[p] = 1}}

QuantityAt(levels, price) ==
    LET i == first_level_at(levels, price, 1)
    IN  IF i = 0 THEN 0 ELSE levels[i][2]

OutsideBookIdle == ScanIdle /\ CacheIdle /\ PipelineIdle /\ ClientIdle /\ LedgerIdle /\ PagerIdle
OutsideBook == UNCHANGED <<call, ret, scanvars, cachevars, pipelinevars, clientvars, ledgervars, pagervars>>

InitBook ==
    /\ call = [fn |-> "MessageHandlers"]
    /\ ret = Unset
    /\ BookIdle
    /\ OutsideBookIdle

HandleSnapshot ==
    /\ call.fn = "MessageHandlers"
    /\ book_seq < MaxMessages
    /\ \E msg \in BookSnapshots :
          /\ orderbook_cache' = handle_orderbook_snapshot(msg)
          /\ book_net' = [side \in Sides |-> [p \in BookPrices |->
                             QuantityAt(IF side = "yes" THEN msg.yes ELSE msg.no, p)]]
    /\ book_consistent' = TRUE
    /\ book_seq' = book_seq + 1
    /\ OutsideBook

HandleDelta ==
    /\ call.fn = "MessageHandlers"
    /\ book_seq < MaxMessages
    /\ \E side \in Sides, price \in BookPrices, delta \in BookDeltas :
          /\ orderbook_cache' = handle_orderbook_delta(orderbook_cache,
                                    [side |-> side, price |-> price, delta |-> delta])
          /\ IF orderbook_cache = Absent
             THEN UNCHANGED <<book_net, book_consistent>>
             ELSE /\ book_net' = [book_net EXCEPT ![side][price] = @ + delta]
                  /\ book_consistent' = (book_consistent /\ book_net[side][price] + delta >= 0)
    /\ book_seq' = book_seq + 1
    /\ OutsideBook

NextBook == HandleSnapshot \/ HandleDelta

SpecBook == InitBook /\ [][NextBook]_vars

(***************************************************************************)
(* The ledger under paper-trade entries and manual adjustments             *)
(* (SpecTrader), and under recommendations and settlements (SpecLedger)    *)
(***************************************************************************)
LedgerTickers == {Ticker("KXCPI", k) : k \in 1..MaxStrikes} \cup {Ticker("KXGDP", 1)}
EntryCosts == {50}
AdjustPrices == {30, 60}
AdjustActions == {"SELL_ALL", "SELL_HALF", "BUY_MORE"}
\* execute <trade_id> BUY_MORE <price> [size]: no size, $40 or $50
AdjustSizes == {None, Some(MAX_SINGLE_ADD), Some(400)}
RecommendedPositions == {TARGET_POSITION_SIZE, 800}
Results == {"WIN", "LOSS"}

Ledger == [trades |-> trades, stats |-> ledger_stats]

OutsideLedgerIdle == ScanIdle /\ CacheIdle /\ PipelineIdle /\ ClientIdle /\ BookIdle /\ PagerIdle
OutsideLedger == UNCHANGED <<call, ret, scanvars, cachevars, pipelinevars, clientvars, bookvars, pagervars>>

Write(data) ==
    /\ trades' = data.trades
    /\ ledger_stats' = data.stats
    /\ ledger_ops' = ledger_ops + 1
    /\ OutsideLedger

InitTrader ==
    /\ call = [fn |-> "dynamic_trader"]
    /\ ret = Unset
    /\ LedgerIdle
    /\ OutsideLedgerIdle

RecordPaperTrade ==
    /\ ledger_ops < MaxOps
    /\ \E ticker \in LedgerTickers, cost \in EntryCosts :
          Write(record_paper_trade(Ledger, ticker, cost))

\* SELL_HALF is taken while the position is a whole number of units
ExecuteManualAdjustment ==
    /\ ledger_ops < MaxOps
    /\ \E trade_id \in 1..(Len(trades) + 1), action \in AdjustActions,
          price \in AdjustPrices, size \in AdjustSizes :
          /\ (action # "BUY_MORE" => size = None)
          /\ (action = "SELL_HALF" /\ trade_id <= Len(trades)
                => position_of(trades[trade_id]) % 2 = 0)
          /\ Write(execute_manual_adjustment(Ledger, trade_id, action, price, size))

NextTrader == RecordPaperTrade \/ ExecuteManualAdjustment

SpecTrader == InitTrader /\ [][NextTrader]_vars

InitLedger ==
    /\ call = [fn |-> "paper_trading"]
    /\ ret = Unset
    /\ LedgerIdle
    /\ OutsideLedgerIdle

RecordRecommendation ==
    /\ ledger_ops < MaxOps
    /\ \E ticker \in LedgerTickers, price \in EntryCosts, position \in RecommendedPositions :
          Write(record_recommendation(Ledger, ticker, price, position))

UpdateResult ==
    /\ ledger_ops < MaxOps
    /\ \E trade_id \in 1..(Len(trades) + 1), result \in Results :
          Write(update_result(Ledger, trade_id, result))

NextLedger == RecordRecommendation \/ UpdateResult \/ RecordPaperTrade

SpecLedger == InitLedger /\ [][NextLedger]_vars

\* ---- PositionCalculator.calculate over confidences, prices and accounts ----
Confidences == {"HIGH", "MEDIUM", "LOW", "UNKNOWN"}
Balances == {0, 9, 10, 50, 83, 84, 100, 500, 2000, 20000}
Exposures == {Frac(0, 1), Frac(49, 100), Frac(50, 100)}

InitPosition ==
    /\ \E confidence \in Confidences, price \in 0..MaxCents, balance \in Balances,
          exposure_pct \in Exposures :
          call = [fn |-> "calculate", confidence |-> confidence, price |-> price,
                  balance |-> balance, exposure_pct |-> exposure_pct]
    /\ ret = Unset
    /\ Idle

CallCalculate ==
    /\ call.fn = "calculate"
    /\ ret = Unset
    /\ ret' = calculate(DEFAULT_RISK_CONFIG, call.confidence, call.price,
                        call.balance, call.exposure_pct)
    /\ UNCHANGED call
    /\ Frame

NextPosition == CallCalculate

SpecPosition == InitPosition /\ [][NextPosition]_vars

(***************************************************************************)
(* The paginated fetch loops against an arbitrary server                   *)
(***************************************************************************)
FetchLoops == {"parity_scanner.fetch_all_events",
               "parity_scanner.fetch_markets_for_event_parallel",
               "UnifiedScanner.fetch_all_events",
               "kalshi_pipeline.fetch_markets_by_series"}

OutsidePagerIdle ==
    ScanIdle /\ CacheIdle /\ PipelineIdle /\ ClientIdle /\ BookIdle /\ LedgerIdle
OutsidePager ==
    UNCHANGED <<call, ret, scanvars, cachevars, pipelinevars, clientvars, bookvars, ledgervars>>

InitPager ==
    /\ \E fn \in FetchLoops : call = [fn |-> fn]
    /\ ret = Unset
    /\ pager_pc = "loop"
    /\ pager_iter = 0
    /\ pager_cursor = FALSE
    /\ pager_pages = 0
    /\ OutsidePagerIdle

\* the loop sends the request for its next page (requests.get / api_get)
SendRequest ==
    /\ pager_pc = "loop"
    /\ pager_pc' = "waiting"
    /\ UNCHANGED <<pager_iter, pager_cursor, pager_pages>>
    /\ OutsidePager

\* the request returns, and the loop body runs to its end
ParityFetchAllEvents ==
    /\ call.fn = "parity_scanner.fetch_all_events"
    /\ pager_pc = "waiting"
    /\ \E first \in Responses, second \in Responses :
          LET after == while_true_turn(api_get(first, second), pager_pages)
          IN  /\ pager_pc' = after.pc
              /\ pager_cursor' = after.cursor
              /\ pager_pages' = after.pages
    /\ UNCHANGED pager_iter
    /\ OutsidePager

ParityFetchMarketsParallel ==
    /\ call.fn = "parity_scanner.fetch_markets_for_event_parallel"
    /\ pager_pc = "waiting"
    /\ \E first \in Responses, second \in Responses :
          LET after == while_true_turn(api_get(first, second), pager_pages)
          IN  /\ pager_pc' = after.pc
              /\ pager_cursor' = after.cursor
              /\ pager_pages' = after.pages
    /\ UNCHANGED pager_iter
    /\ OutsidePager

UnifiedFetchAllEvents ==
    /\ call.fn = "UnifiedScanner.fetch_all_events"
    /\ pager_pc = "waiting"
    /\ \E resp \in Responses :
          LET after == unified_turn(resp, pager_iter, pager_cursor, pager_pages)
          IN  /\ pager_pc' = after.pc
              /\ pager_iter' = after.iter
              /\ pager_cursor' = after.cursor
              /\ pager_pages' = after.pages
    /\ OutsidePager

FetchMarketsBySeries ==
    /\ call.fn = "kalshi_pipeline.fetch_markets_by_series"
    /\ pager_pc = "waiting"
    /\ \E resp \in Responses :
          LET after == series_turn(resp, pager_iter, pager_cursor, pager_pages)
          IN  /\ pager_pc' = after.pc
              /\ pager_iter' = after.iter
              /\ pager_cursor' = after.cursor
              /\ pager_pages' = after.pages
    /\ OutsidePager

NextPager ==
    \/ SendRequest
    \/ ParityFetchAllEvents
    \/ ParityFetchMarketsParallel
    \/ UnifiedFetchAllEvents
    \/ FetchMarketsBySeries

SpecPager == InitPager /\ [][NextPager]_vars

\* every request returns (timeout=15) and the loop takes its next turn
SpecPagerFair ==
    /\ InitPager
    /\ [][NextPager]_vars
    /\ WF_vars(SendRequest)
    /\ WF_vars(ParityFetchAllEvents)
    /\ WF_vars(ParityFetchMarketsParallel)
    /\ WF_vars(UnifiedFetchAllEvents)
    /\ WF_vars(FetchMarketsBySeries)

(***************************************************************************)
(* Claims about check_single_market_parity (SpecSingle)                    *)
(***************************************************************************)
\* The worst-case net profit of the claim, written out from the asks, in e5:
\* 1.00 - total_cost_dollars - max(fee(100 - yes_ask), fee(100 - no_ask)).
ClaimedNetProfit(ya, na) ==
    100000 - 1000 * (ya + na)
        - (IF (100 - ya) * 7 >= (100 - na) * 7 THEN (100 - ya) * 7 ELSE (100 - na) * 7)

\* C1: single_market_parity returns an opportunity only if net_profit > 0:
\* it returns None whenever yes_ask + no_ask >= 100, and every opportunity it
\* returns was computed from 1.00 - total_cost_dollars - worst_case_fee > 0,
\* which is the net_profit it carries (rounded to 4 decimals, still > 0).
C1_OnlyIfNetProfitPositive ==
    (call.fn = "check_single_market_parity" /\ ret # Unset) =>
        LET ya == call.market.yes_ask
            na == call.market.no_ask
        IN  /\ (ya + na >= 100 => ret.kind = "NONE")
            /\ (ret.kind = "OPP" =>
                    /\ ClaimedNetProfit(ya, na) > 0
                    /\ ret.net_profit = RoundHalfEven(ClaimedNetProfit(ya, na), 10)
                    /\ ret.net_profit > 0)

C1_Witness ==
    /\ call.fn = "check_single_market_parity"
    /\ call.market.yes_ask = 46 /\ call.market.no_ask = 52
    /\ ret.kind = "OPP"
    /\ ret.net_profit = 162

\* The fee margin of the claim: the worst-case fee is at most 0.7 cent
\* (DEFAULT_THRESHOLD = 0.993), so "yes_ask + no_ask < 100 - fee_margin" is
\* 10 * (yes_ask + no_ask) < 1000 - 7 in tenths of a cent.
BelowFeeMargin(ya, na) == 10 * (ya + na) < 1000 - 7

\* C2 as stated: for all yes_ask, no_ask in [0,100] with
\* yes_ask + no_ask < 100 - fee_margin the result is a non-null Opportunity
\* with net_profit > 0.
C2_AsStated ==
    (call.fn = "check_single_market_parity" /\ ret # Unset
        /\ call.market.yes_ask \in 0..100 /\ call.market.no_ask \in 0..100
        /\ BelowFeeMargin(call.market.yes_ask, call.market.no_ask))
    => (ret.kind = "OPP" /\ ret.net_profit > 0)

\* C2 amended: the same for asks in [1,100]; an ask of 0 means the side has
\* no ask and the market is skipped.
C2_BothAsksPresent ==
    (call.fn = "check_single_market_parity" /\ ret # Unset
        /\ call.market.yes_ask \in 1..100 /\ call.market.no_ask \in 1..100
        /\ BelowFeeMargin(call.market.yes_ask, call.market.no_ask))
    => (ret.kind = "OPP" /\ ret.net_profit > 0)

C2_Witness ==
    /\ call.fn = "check_single_market_parity"
    /\ call.market.yes_ask = 1 /\ call.market.no_ask = 98
    /\ ret.kind = "OPP"
    /\ ret.net_profit > 0

(***************************************************************************)
(* Claims about check_event_bracket_parity (SpecBracket)                   *)
(***************************************************************************)
\* What buying the brackets of opportunity `opp` nets, in e5, if market i of
\* the set wins: the $1.00 payout if its YES was bought (nothing otherwise),
\* minus the cost of all the legs bought, minus the fee on the winner's profit.
NetIfWins(markets, opp, i) ==
    LET bought == \E k \in 1..Len(opp.brackets) : opp.brackets[k].ticker = markets[i].ticker
    IN  IF bought
        THEN 100000 - 1000 * opp.total_yes_cents - (100 - markets[i].yes_ask) * 7
        ELSE 0 - 1000 * opp.total_yes_cents

\* C5: bracket_parity returns an opportunity only when buying YES on every
\* bracket of the set locks in net_profit > 0 whichever bracket wins: every
\* bracket passed in is a leg of the sum, and the net profit is positive for
\* every possible winner.
C5_LockedInWhicheverWins ==
    (call.fn = "check_event_bracket_parity" /\ ret # Unset /\ ret.kind = "OPP") =>
        /\ ret.num_brackets = Len(call.markets)
        /\ \A i \in 1..Len(call.markets) : NetIfWins(call.markets, ret, i) > 0

(***************************************************************************)
(* Claims about scan_all_parity (SpecScan)                                 *)
(***************************************************************************)
\* C3: the ranked list returned by the parity scan is ordered by profit_pct
\* descending with ties broken by ticker, whatever order the concurrent
\* fetches completed in: two returned opportunities with equal profit_pct
\* stand in ticker order.
C3_RankedByProfitThenTicker ==
    pc = "done" =>
        \A i, j \in 1..Len(all_opportunities) :
            (/\ i < j
             /\ all_opportunities[i].type = "SINGLE_MARKET_PARITY"
             /\ all_opportunities[j].type = "SINGLE_MARKET_PARITY") =>
                \/ all_opportunities[i].profit_pct > all_opportunities[j].profit_pct
                \/ /\ all_opportunities[i].profit_pct = all_opportunities[j].profit_pct
                   /\ all_opportunities[i].ticker <= all_opportunities[j].ticker

\* C4: per-market errors are local: whatever subset of the fetches fails and
\* whichever markets are malformed, the scan is never aborted, and when it
\* returns, every well-formed market of a fetched (and not volume-skipped)
\* event that has a parity opportunity is in the result.
C4_ErrorsAreLocal ==
    /\ pc # "aborted"
    /\ pc = "done" =>
          \A e \in DOMAIN events :
              (fetched[e] = "ok" /\ ~(fast_mode /\ total_volume(events[e]) < 1000)) =>
                  \A i \in 1..Len(events[e]) :
                      (~events[e][i].bad
                          /\ check_single_market_parity(events[e][i]).kind = "OPP") =>
                          \E k \in 1..Len(all_opportunities) :
                              all_opportunities[k].ticker = events[e][i].ticker

(***************************************************************************)
(* Claims about detect_sources (SpecDetect)                                *)
(***************************************************************************)
Detected == call.fn = "detect_sources" /\ ret # Unset

\* C9: for every text, tier = 9 whenever sources is empty; verifiable is
\* False only when sources is empty and no speculative pattern matched; and a
\* speculative match returns tier 9, verifiable True and empty sources.
C9_ClassificationInvariant ==
    Detected =>
        /\ (ret.sources = <<>> => ret.research_tier = 9)
        /\ (ret.verifiable = FALSE => (ret.sources = <<>> /\ ~call.text.speculation))
        /\ (call.text.speculation =>
                (ret.research_tier = 9 /\ ret.verifiable = TRUE /\ ret.sources = <<>>))

C9_Witness ==
    /\ Detected
    /\ call.text.speculation
    /\ call.text.regex # {}
    /\ ret.verifiable = TRUE
    /\ ret.research_tier = 9
    /\ ret.sources = <<>>

\* The entries of the table detect_sources consulted that the text matches:
\* the regex table, or the keyword hints when no regex matched.
SeqRange(s) == {s[i] : i \in 1..Len(s)}
TiersMatched(text) ==
    IF text.regex # {} THEN {OFFICIAL_SOURCE_PATTERNS[k].tier : k \in text.regex}
    ELSE {KEYWORD_HINTS[k].tier : k \in text.keywords}
TagsMatched(text) ==
    IF text.regex # {} THEN {OFFICIAL_SOURCE_PATTERNS[k].source : k \in text.regex}
    ELSE {KEYWORD_HINTS[k].source : k \in text.keywords}

\* C10: a text (not speculative) that matches table entries reports the
\* lowest tier of all the matching entries, also of an entry whose source tag
\* an earlier entry had already supplied, and sources holds every distinct
\* matched source tag, each once.
C10_LowestTierAllTags ==
    (Detected /\ ~call.text.speculation /\ TagsMatched(call.text) # {}) =>
        /\ \A t \in TiersMatched(call.text) : ret.research_tier <= t
        /\ ret.research_tier \in TiersMatched(call.text)
        /\ SeqRange(ret.sources) = TagsMatched(call.text)
        /\ Len(ret.sources) = Cardinality(TagsMatched(call.text))

\* the text matches both WhiteHouse entries (tier 2, then tier 3)
C10_Witness ==
    /\ Detected
    /\ ~call.text.speculation
    /\ call.text.regex = {15, 16}
    /\ ret.sources = <<"WhiteHouse">>
    /\ ret.research_tier = 2

(***************************************************************************)
(* Claims about the forecast cache (SpecCache)                             *)
(***************************************************************************)
\* C8: the NowcastFetcher cache never serves data past its TTL: whatever a
\* query is served was fetched no longer ago than 300 s.
C8_NeverServedPastTTL ==
    (last_query.kind = "nowcast" /\ ret.kind = "NOWCAST") =>
        /\ ret.fetched_at = last_query.fetched_at
        /\ last_query.at - last_query.fetched_at <= NOWCAST_TTL

(***************************************************************************)
(* Claims about the forecast-edge path (SpecForecast)                      *)
(***************************************************************************)
\* C6: every opportunity emitted on the forecast-edge path has a
\* non-negative edge on its recommended side: none with a negative edge is
\* emitted or ranked (by the weather scan, or recommended by the report).
C6_NoNegativeEdgeEmitted ==
    /\ (call.fn = "scan_weather_markets" /\ ret # Unset) =>
            \A k \in 1..Len(ret.strong_opps) : ret.strong_opps[k].edge >= 0
    /\ (call.fn = "main" /\ ret # Unset) =>
            \A k \in 1..Len(ret.recommendations) : ret.recommendations[k].net_edge >= 0

\* C7: when the forecast provider returned None, the caller skips: nothing
\* is computed for the market from a substituted forecast value.  The weather
\* scan emits nothing for a market without a forecast, and the report shows
\* no row and no recommendation when fetch_gdpnow returned None.
C7_NoneMeansSkip ==
    /\ (call.fn = "scan_weather_markets" /\ ret # Unset) =>
            \A k \in 1..Len(ret.strong_opps) :
                call.markets[ret.strong_opps[k].ticker].forecast # None
    /\ (call.fn = "main" /\ ret # Unset /\ call.provider = None) =>
            (ret.rows = <<>> /\ ret.recommendations = <<>>)

(***************************************************************************)
(* Claims about the tier gate (SpecTierGate)                               *)
(***************************************************************************)
Accepted(report) == {report.results[k].event_ticker : k \in 1..Len(report.results)}

\* C11: for a fixed batch, a scan at a stricter acceptance tier accepts a
\* subset of what a scan at a looser tier accepts, and never more candidates.
C11_TierGateMonotonic ==
    (call.fn = "scan") =>
        \A a, b \in 1..Len(ret.reports) :
            ret.reports[a].min_tier <= ret.reports[b].min_tier =>
                /\ Accepted(ret.reports[a]) \subseteq Accepted(ret.reports[b])
                /\ ret.reports[a].matched_markets <= ret.reports[b].matched_markets

\* the batch scanned at tier 2 and at tier 1, tier 1 accepting strictly fewer
C11_Witness ==
    /\ call.fn = "scan"
    /\ Len(ret.reports) = 2
    /\ ret.reports[1].min_tier = 2
    /\ ret.reports[2].min_tier = 1
    /\ ret.reports[2].matched_markets >= 1
    /\ ret.reports[2].matched_markets < ret.reports[1].matched_markets

(***************************************************************************)
(* Claims about the edge computations (SpecEdge)                           *)
(***************************************************************************)
EdgeComputed == call.fn = "calculate_edge" /\ ret # Unset

\* the gross edge of the claim: fair price of the side less its market price
ClaimedGrossEdge ==
    IF call.side = "YES" THEN call.signal_data.fair_yes - call.market_price
    ELSE call.signal_data.fair_no - (100 - call.market_price)

\* C12: calculate_edge applies the ladder in order, first match wins:
\* NO_SIGNAL gives SKIP whatever the edge; otherwise net_edge <= 0 gives
\* SKIP, net_edge < 5 small, net_edge < 10 medium, else large position.
C12_DecisionLadder ==
    EdgeComputed =>
        /\ ret.gross_edge = ClaimedGrossEdge
        /\ ret.net_edge = ClaimedGrossEdge - call.tx_cost
        /\ ret.recommendation =
              (IF call.signal_data.signal = "NO_SIGNAL" THEN "SKIP (noise)"
               ELSE IF ret.net_edge <= 0 THEN "SKIP (no edge)"
               ELSE IF ret.net_edge < 5 THEN "small position"
               ELSE IF ret.net_edge < 10 THEN "medium position"
               ELSE "large position")
        /\ (ret.position = 0) = (ret.recommendation \in {"SKIP (noise)", "SKIP (no edge)"})

\* probability 88, market price 70, YES, tx_cost 5: 18, 13, large position
C12_Witness ==
    /\ EdgeComputed
    /\ call.signal_data.fair_yes = 88
    /\ call.signal_data.signal # "NO_SIGNAL"
    /\ call.market_price = 70
    /\ call.side = "YES"
    /\ call.tx_cost = 5
    /\ ret.gross_edge = 18
    /\ ret.net_edge = 13
    /\ ret.recommendation = "large position"

(***************************************************************************)
(* Claims about the probability model (SpecProb)                           *)
(***************************************************************************)
\* C13: the probability used downstream is clamped to [1, 99]: the weather
\* probability (in tenths of a percent) and the fair YES price of the report
\* (in percent) are never below 1 nor above 99.
C13_ProbabilityClamped ==
    /\ ret.kind = "PROB" => (10 <= ret.value /\ ret.value <= 990)
    /\ ret.kind = "SIGNAL" => (1 <= ret.data.fair_yes /\ ret.data.fair_yes <= 99)

\* C14: a standard deviation <= 0 is refused: calculate_signal called with
\* sigma <= 0 raises, it returns no signal computed by dividing by it.
C14_InvalidStdRefused ==
    (call.fn = "calculate_signal" /\ call.sigma <= 0 /\ ret # Unset) => ret = Raise

\* the probability of the forecast one tenth higher, other inputs as called
NextProbability ==
    estimate_probability(call.nws_value + 1, call.threshold, call.direction, call.metric)
NextFairYes ==
    calculate_signal(call.nowcast + 1, call.threshold, call.sigma, call.bias).fair_yes

\* C15 as stated: a higher forecast gives a strictly higher probability for
\* "above" and a strictly lower one for "below".
C15_StrictlyMonotone ==
    ret.kind = "PROB" =>
        IF call.direction = "above" THEN NextProbability > ret.value
        ELSE NextProbability < ret.value

\* C15: for a fixed threshold and a positive error_std, a higher forecast
\* never gives a lower probability for "above" nor a higher one for "below"
\* (the clamp to [1, 99] and the rounding make it flat in places); the fair
\* YES price of the report never falls as the nowcast rises.
C15_Monotone ==
    /\ ret.kind = "PROB" =>
          IF call.direction = "above" THEN NextProbability >= ret.value
          ELSE NextProbability <= ret.value
    /\ (ret.kind = "SIGNAL" /\ call.sigma > 0) => NextFairYes >= ret.data.fair_yes

\* a "below" call where the next forecast gives a strictly lower probability
C15_Witness ==
    /\ ret.kind = "PROB"
    /\ call.direction = "below"
    /\ call.nws_value = ProbThreshold
    /\ ret.value = 500
    /\ NextProbability < ret.value

OtherSide == IF call.side = "YES" THEN "NO" ELSE "YES"

\* C16: with fair_yes + fair_no = 100 and the NO price the complement of the
\* YES price, the gross edge of YES and the gross edge of NO sum to zero, in
\* calculate_edge of the report and in the two edges of the weather scan.
C16_EdgeSignConsistency ==
    /\ EdgeComputed =>
          ret.gross_edge
            + calculate_edge(call.signal_data, call.market_price, OtherSide, call.tx_cost).gross_edge
            = 0
    /\ (call.fn = "yes_no_edges" /\ ret # Unset) => ret.yes_edge + ret.no_edge = 0

\* forecast probability 2.3 against a mid price of 41.5: -39.2 and +39.2
C16_Witness ==
    /\ call.fn = "yes_no_edges"
    /\ ret # Unset
    /\ call.nws_prob = 23
    /\ call.mid_price = 415
    /\ ret.yes_edge = -392
    /\ ret.no_edge = 392

(***************************************************************************)
(* Claims about the outputs of both parity checks (SpecParity)             *)
(***************************************************************************)
\* C17: a parity opportunity whose edge exceeds 3% is returned with the
\* stale-data warning set.  A market whose two asks leave more than 3% of
\* the cost after the worst-case fee yields an opportunity, and every
\* opportunity (single-market or bracket) reporting profit_pct > 3.00 has
\* stale_warning set.
C17_StaleWarningAbove3Pct ==
    /\ (call.fn = "check_single_market_parity" /\ ret # Unset) =>
          LET ya == call.market.yes_ask
              na == call.market.no_ask
          IN  (ya > 0 /\ na > 0 /\ ClaimedNetProfit(ya, na) > 30 * (ya + na)) =>
                  (ret.kind = "OPP" /\ ret.stale_warning)
    /\ (ret.kind = "OPP" /\ ret.profit_pct > 300) => ret.stale_warning

\* a set of three brackets returned with profit_pct above 3.00, flagged
C17_Witness ==
    /\ call.fn = "check_event_bracket_parity"
    /\ ret.kind = "OPP"
    /\ ret.num_brackets = 3
    /\ ret.profit_pct > 300
    /\ ret.stale_warning

(***************************************************************************)
(* Claims about the NWS forecast lookups (SpecNws)                         *)
(***************************************************************************)
\* C18: the confidence label of a returned forecast depends on lead time
\* only: up to 2 days ahead HIGH, 3 to 5 days MEDIUM, 6 days or more, or a
\* monthly aggregation, LOW, whichever path supplied the value.
C18_ConfidenceFromLeadTime ==
    /\ (call.fn = "get_nws_temp_for_date" /\ ret.kind = "FORECAST") =>
          ret.confidence =
              (IF call.target_date - Today <= 2 THEN "HIGH"
               ELSE IF call.target_date - Today <= 5 THEN "MEDIUM"
               ELSE "LOW")
    /\ (call.fn = "get_nws_precip_for_month" /\ ret.kind = "FORECAST") =>
          ret.confidence = "LOW"

(***************************************************************************)
(* Claims about the risk score (SpecRisk)                                  *)
(***************************************************************************)
\* C19: risk_score lies in 0..100 and is monotone in each input with the
\* others fixed: a higher volume never gives a higher score, a larger edge
\* never a lower score, more legs never a lower score.
C19_RiskScoreMonotone ==
    ret.kind = "SCORE" =>
        /\ 0 <= ret.value /\ ret.value <= 100
        /\ \A volume \in RiskVolumes :
              volume > call.volume =>
                  calculate_risk_score(call.profit_pct, 100, volume,
                                       call.num_legs, call.is_bracket) <= ret.value
        /\ \A profit_pct \in RiskEdges :
              profit_pct > call.profit_pct =>
                  calculate_risk_score(profit_pct, 100, call.volume,
                                       call.num_legs, call.is_bracket) >= ret.value
        /\ \A num_legs \in RiskLegs :
              num_legs > call.num_legs =>
                  calculate_risk_score(call.profit_pct, 100, call.volume,
                                       num_legs, call.is_bracket) >= ret.value

\* a low-volume call whose score a volume above 100000 lowers by 35
C19_Witness ==
    /\ ret.kind = "SCORE"
    /\ call.volume = 999
    /\ call.profit_pct = 101
    /\ call.num_legs = 2
    /\ ~call.is_bracket
    /\ ret.value = 75
    /\ calculate_risk_score(call.profit_pct, 100, 100001, call.num_legs, call.is_bracket) = 40

(***************************************************************************)
(* Claims about the analysis pipeline (SpecPipeline)                       *)
(***************************************************************************)
\* C20: a market snapshot is never mutated in place: once fetched, and
\* after every stage of the pass (filter, detail fetch, nowcast lookup),
\* each market record has exactly the fields and values it had when the API
\* returned it.
C20_SnapshotNotMutated ==
    (call.fn = "run_pipeline" /\ pipeline_pc # "idle") => all_markets = call.response

\* ---- The worked example: yes_ask = 46, no_ask = 52 ----

\* C21 as stated: for yes_ask = 46, no_ask = 52 single_market_parity returns
\* net_profit of about 0.0186 (within 0.001) and profit_pct of about 1.9%
\* (within 0.1).  net_profit in 1e-4 dollars, profit_pct in hundredths.
C21_AsStated ==
    (call.fn = "check_single_market_parity" /\ ret # Unset
        /\ call.market.yes_ask = 46 /\ call.market.no_ask = 52)
    => /\ ret.kind = "OPP"
       /\ Abs(ret.net_profit - 186) <= 10
       /\ Abs(ret.profit_pct - 190) <= 10

\* C21 amended: for yes_ask = 46, no_ask = 52 the worst-case fee is
\* max(54, 48) * 0.007 / 100 = 0.00378 dollars, so single_market_parity
\* returns max_fee 0.0038, net_profit 0.0162 and profit_pct 1.66.
C21_WorkedExample ==
    (call.fn = "check_single_market_parity" /\ ret # Unset
        /\ call.market.yes_ask = 46 /\ call.market.no_ask = 52)
    => /\ ret.kind = "OPP"
       /\ ret.max_fee = 38
       /\ ret.net_profit = 162
       /\ ret.profit_pct = 166

C21_Witness ==
    /\ call.fn = "check_single_market_parity"
    /\ call.market.yes_ask = 46 /\ call.market.no_ask = 52
    /\ ret # Unset
    /\ ret.kind = "OPP"
    /\ ret.total_cost_cents = 98
    /\ ret.profit_pct = 166

(***************************************************************************)
(* Claims about KalshiWebSocketClient (SpecRun, SpecRunFair, SpecClient)   *)
(***************************************************************************)
ConnectionEnded == ws \in {"closed_ok", "closed_error"}

\* C22: with auto_reconnect enabled, whenever the connection ends for any
\* reason while the client is connected, the client eventually marks itself
\* disconnected and calls connect() again; with auto_reconnect disabled,
\* run() eventually returns after the connection loss.
C22_ReconnectsAfterAnyLoss ==
    /\ (auto_reconnect /\ connected /\ ConnectionEnded)
           ~> (~connected /\ run_pc = "connecting")
    /\ (~auto_reconnect /\ connected /\ ConnectionEnded)
           ~> (run_pc = "done")

\* C23: reconnect_delay stays within [1, max_reconnect_delay]; it is 1
\* whenever the client is connected (connect() resets it); the n-th
\* consecutive wait before a retry is min(2^(n-1), max_reconnect_delay)
\* seconds, and after each wait the delay is the doubled wait, capped.
C23_BackoffBoundedAndReset ==
    (call.fn = "run") =>
        /\ reconnect_delay \in 1..max_reconnect_delay
        /\ (connected => reconnect_delay = 1)
        /\ \A n \in 1..Len(waits) : waits[n] = Min(2 ^ (n - 1), max_reconnect_delay)
        /\ (run_pc = "sleeping" => reconnect_delay = waits[Len(waits)])
        /\ ((run_pc \in {"start", "connecting"} /\ waits # <<>>) =>
                reconnect_delay = Min(2 * waits[Len(waits)], max_reconnect_delay))

\* three consecutive retries under a cap of 3 seconds: waits of 1, 2 and 3
C23_Witness ==
    /\ call.fn = "run"
    /\ max_reconnect_delay = 3
    /\ Len(waits) >= 3
    /\ waits[1] = 1 /\ waits[2] = 2 /\ waits[3] = 3
    /\ run_pc = "connecting"
    /\ reconnect_delay = 3

\* C24: for any interleaving of subscribe and unsubscribe coroutines, no two
\* commands are sent with the same id, and the subscription_id a subscribe
\* returns (and records in subscriptions) is the id of the command it sent.
C24_UniqueIdsAndReturnedId ==
    /\ \A i, j \in 1..Len(sent) : (i # j) => (sent[i].id # sent[j].id)
    /\ \A c \in Coroutines :
          (tasks[c].pc = "done" /\ tasks[c].cmd = "subscribe") =>
              tasks[c].result = tasks[c].id

\* C25: whenever the client is connected, every entry in subscriptions has
\* been sent as a subscribe command on the current connection.
C25_TrackedSubscriptionsAreLive ==
    connected =>
        \A sid \in DOMAIN subscriptions :
            \E i \in 1..Len(sent) :
                /\ sent[i].conn = conn
                /\ sent[i].cmd = "subscribe"
                /\ sent[i].channels = subscriptions[sid].channels

(***************************************************************************)
(* Claims about the cached orderbook (SpecBook)                            *)
(***************************************************************************)
LevelsOf(side) ==
    IF side = "yes" THEN orderbook_cache.yes_levels ELSE orderbook_cache.no_levels

\* every quantity > 0, no price twice, YES descending and NO ascending
WellFormedSide(side) ==
    LET levels == LevelsOf(side)
    IN  /\ \A k \in 1..Len(levels) : levels[k][2] > 0
        /\ \A k, l \in 1..Len(levels) : (k < l) =>
              IF side = "yes" THEN levels[k][1] > levels[l][1]
                              ELSE levels[k][1] < levels[l][1]

\* each level's quantity is its snapshot quantity plus the deltas received
QuantitiesAreSums(side) ==
    LET levels == LevelsOf(side)
    IN  \A k \in 1..Len(levels) : levels[k][2] = book_net[side][levels[k][1]]

\* C26 as stated: after a snapshot and any sequence of deltas, each cached
\* side has positive quantities, distinct prices, YES descending and NO
\* ascending, and each level's quantity is the snapshot quantity plus the
\* sum of the deltas received for that price.
C26_AsStated ==
    (orderbook_cache # Absent) =>
        \A side \in Sides : WellFormedSide(side) /\ QuantitiesAreSums(side)

\* C26 amended: positive quantities, distinct prices and the order of each
\* side hold after any sequence of deltas; each level's quantity is the
\* snapshot quantity plus the sum of the deltas for its price as long as no
\* delta has removed more than its level held.
C26_BookWellFormed ==
    (orderbook_cache # Absent) =>
        \A side \in Sides :
            /\ WellFormedSide(side)
            /\ (book_consistent => QuantitiesAreSums(side))

\* a snapshot followed by deltas that grew one YES level and added or grew
\* one NO level
C26_Witness ==
    /\ orderbook_cache # Absent
    /\ book_consistent
    /\ book_seq >= 3
    /\ orderbook_cache.yes_levels = <<Level(2, 3), Level(1, 1)>>
    /\ orderbook_cache.no_levels = <<Level(1, 1), Level(2, 3)>>
    /\ book_net["yes"][2] = 3

(***************************************************************************)
(* Claims about the ledger (SpecTrader, SpecLedger)                        *)
(***************************************************************************)
PendingExposure(keep(_)) ==
    sum_positions(SelectSeq(trades, LAMBDA t : t.status = "PENDING" /\ keep(t)))

\* C27: after any sequence of paper-trade entries and manual adjustments,
\* the exposure of PENDING trades is at most $75 per ticker, $120 per series
\* and $200 in total, and no single buy-more adds more than $40.
C27_PositionLimitsHold ==
    (call.fn = "dynamic_trader") =>
        /\ \A ticker \in LedgerTickers :
              PendingExposure(LAMBDA t : t.ticker = ticker) <= MAX_POSITION_PER_TICKER
        /\ \A ticker \in LedgerTickers :
              PendingExposure(LAMBDA t : series_of(t.ticker) = series_of(ticker))
                  <= MAX_POSITION_PER_SERIES
        /\ PendingExposure(LAMBDA t : TRUE) <= MAX_TOTAL_EXPOSURE
        /\ \A i \in 1..Len(trades) : \A k \in 1..Len(trades[i].adjustments) :
              (trades[i].adjustments[k].action = "BUY_MORE") =>
                  trades[i].adjustments[k].size <= MAX_SINGLE_ADD

\* C28: after any sequence of record_recommendation, record_paper_trade and
\* update_result calls, total == wins + losses + pending, pending equals the
\* number of trades whose status is PENDING, and pending >= 0.
C28_StatsConsistent ==
    (call.fn = "paper_trading") =>
        /\ ledger_stats.total
              = ledger_stats.wins + ledger_stats.losses + ledger_stats.pending
        /\ ledger_stats.pending = Len(pending_trades(trades))
        /\ ledger_stats.pending >= 0

(***************************************************************************)
(* Claims about PositionCalculator.calculate (SpecPosition)                *)
(***************************************************************************)
\* C29: for every balance >= $10 a BUY result recommends at most
\* max_single_position_pct of the balance left after the minimum cash
\* reserve, and so at most that available balance.  (dollars in cents)
C29_BuyWithinRiskConfig ==
    (call.fn = "calculate" /\ ret # Unset /\ ret.action = "BUY" /\ call.balance >= 10) =>
        LET config == DEFAULT_RISK_CONFIG
            available == FracMul(Frac(call.balance, 1),
                                 Frac(config.min_cash_reserve_pct.d - config.min_cash_reserve_pct.n,
                                      config.min_cash_reserve_pct.d))
            limit == FracMul(available, config.max_single_position_pct)
        IN  /\ FracLeq(Frac(ret.dollars, 100), limit)
            /\ FracLeq(Frac(ret.dollars, 100), available)

(***************************************************************************)
(* Claims about the paginated fetch loops (SpecPagerFair)                  *)
(***************************************************************************)
\* C30: every paginated fetch loop terminates for every sequence of server
\* responses, including a server that keeps returning a full page with a
\* non-empty cursor and a server that keeps answering 429.
C30_EveryFetchLoopTerminates == <>(pager_pc = "done")

====
